---- MODULE Spec2Model ----
(***************************************************************************)
(* Chunked audio capture / upload pipeline of ScribeAI.                    *)
(*                                                                         *)
(*   SpecUpload    - POST /api/sessions/[id]/chunks, several requests of   *)
(*                   one session interleaving at their database awaits.    *)
(*   SpecRecording - AudioRecorder (lib/audio-analyzer.ts) driven by the   *)
(*                   browser's MediaRecorder, from start() to one stop().  *)
(*   SpecRecorder  - the same with stop() calls that may overlap.          *)
(*   SpecHook      - the recorder with the useAudioRecorder hook as its    *)
(*                   onChunk / onStateChange consumer and the              *)
(*                   recordingState store of IndexedDB.                    *)
(***************************************************************************)
EXTENDS Integers, Sequences, FiniteSets

VARIABLES
    \* ---- server: durable storage of one session ----
    audioChunks,      \* rows of the AudioChunk table, in insertion order
    chunksCount,      \* Session.chunksCount
    req,              \* the upload requests being handled, by request number
    \* ---- browser: the clock, the media tracks, the MediaRecorder ----
    now,              \* Date.now(), in ticks
    tracks,           \* readyState of the mic, display and mixed-output tracks
    mrState,          \* MediaRecorder.state
    buffered,         \* ticks of audio gathered since the last blob was cut
    eventQueue,       \* dataavailable / stop events waiting to be dispatched
    onstop,           \* mediaRecorder.onstop: the stop() call whose closure it is, 0 if unset
    \* ---- AudioRecorder fields ----
    mediaRecorder,    \* this.mediaRecorder # null
    audioStream,      \* the tracks of this.audioStream, {} when null
    audioContext,     \* this.audioContext # null
    chunkTimer,       \* this.chunkTimer # null
    chunks,           \* this.chunks.length
    chunkIndex,
    chunkStartTime,
    pausedTime,
    isStopping,
    finalChunkPromise,\* the stop() call whose resolvers this.finalChunkPromise holds, 0 if null
    state,            \* this.state
    stopCall,         \* the calls of AudioRecorder.stop(), by call number
    \* ---- what the consumer of onChunk has seen ----
    emitted,          \* the index of every onChunk call, in order
    lastChunk,        \* the last onChunk call: reported duration, ticks really recorded
    unpaused,         \* ticks recorded (not paused) since the last onChunk call
    expectedAtStop,   \* chunks due when stop() was first called, -1 before
    \* ---- useAudioRecorder ----
    sessionIdRef,
    recorderRef,
    pendingChunksRef,
    hookStop,         \* position of the hook's stop()
    recordingState,   \* the record of the recordingState store for the session, or NoRecord
    idbQueue,         \* IndexedDB requests on the recordingState store, in order
    \* ---- useAudioRecorder.handleChunk ----
    chunkTask,        \* the handleChunk call of each chunk index
    chunkStore,       \* ids held by the audioChunks store of IndexedDB
    toasts,           \* what toast.success / toast.error have shown
    waited,           \* turns the wait loop of the hook's stop() has slept
    \* ---- playback and transcription of a recorded session ----
    localChunks,      \* records of the audioChunks store of IndexedDB
    measured,         \* duration the recorder measured for the chunk of each index
    lastCall,         \* the last reassembly call and what it returned
    \* ---- the session row and the routes that update it ----
    sessionRow,       \* transcript, summary, status, duration, recordingStartedAt
    chunkTranscript,  \* transcript column of the chunk row of each index
    sessionReq,       \* each session request: position, body, what it read, answer
    serverClock,      \* what new Date() gives on the server
    \* ---- the calls of the hook's start() and the error callbacks ----
    lastStart,        \* the last start(mode, sessionId): its inputs and how it ended
    onErrorCalls,     \* how often options.onError has been called
    stateError,       \* whether the recorder's state.error is set
    hookError,        \* whether the hook's state.error is set
    \* ---- lib/indexeddb.ts: the local store of two sessions ----
    database,         \* the module's connection `db`: unavailable, closed or open
    storedChunks,     \* the audioChunks object store: record of each key
    storedState,      \* the recordingState object store: record of each session
    lastStored,       \* per session and index, the blob last stored and not deleted since
    storeResult,      \* the last call of the library and how it settled
    \* ---- app/page.tsx and the hook across sessions ----
    currentSessionId, \* the page's currentSessionId state
    isStarting,       \* the page's isStarting state
    modeSelect,       \* where handleModeSelect is
    stopClick,        \* where handleStop is
    effectDeps,       \* isRecording and currentSessionId as the status effect last saw them
    statusEffect,     \* each run of updateSessionStatus: where it is, the status it fetched
    leftOver          \* handleChunk calls of an earlier session that have not ended: their indices

serverVars == <<audioChunks, chunksCount, req>>

browserVars == <<now, tracks, mrState, buffered, eventQueue, onstop>>

recorderVars ==
    <<mediaRecorder, audioStream, audioContext, chunkTimer, chunks, chunkIndex,
      chunkStartTime, pausedTime, isStopping, finalChunkPromise, state, stopCall,
      emitted, lastChunk, unpaused, expectedAtStop>>

hookVars == <<sessionIdRef, recorderRef, pendingChunksRef, hookStop, recordingState, idbQueue>>

taskVars == <<chunkTask, chunkStore, toasts, waited>>

captureVars == <<browserVars, recorderVars, hookVars, taskVars>>

playVars == <<localChunks, measured, lastCall>>

sessionVars == <<sessionRow, chunkTranscript, sessionReq, serverClock>>

startVars == <<lastStart, onErrorCalls, stateError, hookError>>

storeVars == <<database, storedChunks, storedState, lastStored, storeResult>>

pageVars == <<currentSessionId, isStarting, modeSelect, stopClick, effectDeps, statusEffect>>

clientVars == <<pageVars, leftOver>>

vars == <<serverVars, captureVars, playVars, sessionVars, startVars, storeVars, clientVars>>

(***************************************************************************)
(* Bounds                                                                  *)
(***************************************************************************)
NumRequests == 2      \* upload requests that may overlap
MaxStored == 1        \* chunks 0..n-1 already uploaded when the requests start, n <= MaxStored
MaxIndex == 8         \* largest chunk index a client sends
NumStopCalls == 2     \* calls of AudioRecorder.stop() on one recorder
MaxTime == 4          \* ticks the clock advances
MaxIdbQueue == 2      \* IndexedDB requests waiting at once
MaxPolls == 2         \* turns of the wait loop of stop() within maxWaitTime
MaxChunkIndex == 3    \* largest chunk index of a recorded session
NumSessionRequests == 2   \* session requests that may overlap
MaxServerClock == 3   \* instants of the server clock
MaxStoreIndex == 1    \* largest chunk index kept in the local store
MaxTranscript == 4    \* longest chunk transcript the segments build
MaxGiven == 3         \* most indices given to validateChunkSequence
NumEffectRuns == 2    \* runs of the page's status effect that may overlap
MaxLeftOver == 1      \* largest index of a handleChunk call left over from an earlier session

Requests == 1..NumRequests
ChunkIndices == (0 - 1)..MaxIndex

SessionId == "s1"

StopCalls == 1..NumStopCalls
ChunkTicks == 2       \* options.chunkDuration (30 s), in ticks
NoRecord == [sessionId |-> "none"]

(***************************************************************************)
(* POST /api/sessions/[id]/chunks                                          *)
(***************************************************************************)

\* `${sessionId}-${chunkIndex}`
ChunkId(sessionId, index) == <<sessionId, index>>

\* Buffer.from(arrayBuffer).toString('base64') of the file of request r: every
\* request carries its own body.
Base64Data(r) == <<"b64", r>>

\* parseFloat(durationStr || '30') of the form of request r: the duration the
\* client measured for that body, different for every request.
ParsedDuration(r) == 30 - r

Max(S) == CHOOSE x \in S : \A y \in S : y <= x

\* prisma.audioChunk.findMany({where:{sessionId}, orderBy:{chunkIndex:'desc'}, take:1})
FindLastChunk(table) ==
    IF Len(table) = 0 THEN <<>>
    ELSE <<Max({table[k].chunkIndex : k \in DOMAIN table})>>

\* prisma.audioChunk.findUnique({where:{id}})
FindUnique(table, id) == \E k \in DOMAIN table : table[k].id = id

\* The index validation: TRUE when the request is answered 400.
IndexRejectedBelowLast(existingChunks, index) ==
    IF Len(existingChunks) > 0
    THEN index < existingChunks[1] \/ index > existingChunks[1] + 6
    ELSE index # 0 /\ index > 5

IndexRejectedUnlessZero(existingChunks, index) ==
    IF Len(existingChunks) > 0
    THEN index < existingChunks[1] - 1 \/ index > existingChunks[1] + 6
    ELSE index # 0

IndexRejected(existingChunks, index) ==
    IF Len(existingChunks) > 0
    THEN LET lastChunkIndex == existingChunks[1]
             expectedIndex == lastChunkIndex + 1
         IN  /\ index # expectedIndex
             /\ (index < lastChunkIndex \/ index > expectedIndex + 5)
             /\ (index < lastChunkIndex - 1 \/ index > expectedIndex + 5)
    ELSE index # 0 /\ index > 5

\* What the index validation writes to the console (lines 235-275): "warn"
\* for the console.warn of line 243, "log" for the console.log of line 260,
\* "none" when it writes nothing.
IndexLogged(existingChunks, index) ==
    IF Len(existingChunks) > 0
    THEN LET lastChunkIndex == existingChunks[1]
             expectedIndex == lastChunkIndex + 1
         IN  IF index = expectedIndex THEN "none"
             ELSE IF index < lastChunkIndex \/ index > expectedIndex + 5 THEN "warn"
             ELSE "log"
    ELSE "none"

\* prisma.audioChunk.update({where:{id}, data:{audioData, duration, ...}})
UpdateAsInsert(table, id, audioData, duration) ==
    Append(table, [id |-> id, chunkIndex |-> id[2],
                   audioData |-> audioData, duration |-> duration])

PrismaUpdate(table, id, audioData, duration) ==
    [k \in DOMAIN table |->
        IF table[k].id = id
        THEN [table[k] EXCEPT !.audioData = audioData, !.duration = duration]
        ELSE table[k]]

\* prisma.audioChunk.create({data:{id, sessionId, chunkIndex, audioData, duration}})
\* on a table whose id column is the primary key: the caller checks CreateThrows.
CreateThrows(table, id) == \E k \in DOMAIN table : table[k].id = id

PrismaCreate(table, id, index, audioData, duration) ==
    Append(table, [id |-> id, chunkIndex |-> index,
                   audioData |-> audioData, duration |-> duration])

IdleRequest ==
    [pc |-> "idle", chunkIndex |-> 0, audioData |-> <<>>, duration |-> 0,
     existingChunks |-> <<>>, existingChunk |-> FALSE, isNewChunk |-> FALSE,
     existedAtReceipt |-> FALSE, logged |-> "none", status |-> 0]

\* The session after n chunks were recorded and uploaded one after the other.
UploadedInOrder(n) ==
    [k \in 1..n |-> [id |-> ChunkId(SessionId, k - 1), chunkIndex |-> k - 1,
                     audioData |-> Base64Data(0), duration |-> 30]]

ServerAt(n) ==
    /\ audioChunks = UploadedInOrder(n)
    /\ chunksCount = n
    /\ req = [r \in Requests |-> IdleRequest]

InitServer == \E n \in 0..MaxStored : ServerAt(n)

\* The request with chunkIndex i: form data parsed, user and
\* session found (lines 170-225, none of it touches the chunks), then await
\* findMany and the index validation (lines 227-275).
PostValidate(r, i) ==
    /\ req[r].pc = "idle"
    /\ LET existingChunks == FindLastChunk(audioChunks)
           arrived == [IdleRequest EXCEPT
                          !.chunkIndex = i, !.audioData = Base64Data(r),
                          !.duration = ParsedDuration(r),
                          !.existingChunks = existingChunks,
                          !.logged = IndexLogged(existingChunks, i),
                          !.existedAtReceipt = FindUnique(audioChunks, ChunkId(SessionId, i))]
       IN  req' = [req EXCEPT ![r] =
                     IF IndexRejected(existingChunks, i)
                     THEN [arrived EXCEPT !.pc = "done", !.status = 400]
                     ELSE [arrived EXCEPT !.pc = "findUnique"]]
    /\ UNCHANGED <<audioChunks, chunksCount>>
    /\ UNCHANGED captureVars
    /\ UNCHANGED playVars
    /\ UNCHANGED sessionVars
    /\ UNCHANGED startVars
    /\ UNCHANGED storeVars
    /\ UNCHANGED clientVars

\* await findUnique (lines 277-282).
PostFindExisting(r) ==
    /\ req[r].pc = "findUnique"
    /\ req' = [req EXCEPT ![r] =
                 [@ EXCEPT !.existingChunk =
                               FindUnique(audioChunks, ChunkId(SessionId, req[r].chunkIndex)),
                           !.pc = "write"]]
    /\ UNCHANGED <<audioChunks, chunksCount>>
    /\ UNCHANGED captureVars
    /\ UNCHANGED playVars
    /\ UNCHANGED sessionVars
    /\ UNCHANGED startVars
    /\ UNCHANGED storeVars
    /\ UNCHANGED clientVars

\* await update (lines 286-296), answered 200 with nothing else awaited.
PostUpdate(r) ==
    /\ req[r].pc = "write"
    /\ req[r].existingChunk
    /\ audioChunks' = PrismaUpdate(audioChunks, ChunkId(SessionId, req[r].chunkIndex),
                                   req[r].audioData, req[r].duration)
    /\ req' = [req EXCEPT ![r] = [@ EXCEPT !.pc = "done", !.status = 200]]
    /\ UNCHANGED chunksCount
    /\ UNCHANGED captureVars
    /\ UNCHANGED playVars
    /\ UNCHANGED sessionVars
    /\ UNCHANGED startVars
    /\ UNCHANGED storeVars
    /\ UNCHANGED clientVars

\* await create (lines 297-311); a duplicate primary key throws into the
\* catch of line 333, answered 500.
PostCreate(r) ==
    /\ req[r].pc = "write"
    /\ ~req[r].existingChunk
    /\ LET id == ChunkId(SessionId, req[r].chunkIndex)
       IN  IF CreateThrows(audioChunks, id)
           THEN /\ req' = [req EXCEPT ![r] = [@ EXCEPT !.pc = "done", !.status = 500]]
                /\ UNCHANGED audioChunks
           ELSE /\ audioChunks' = PrismaCreate(audioChunks, id, req[r].chunkIndex,
                                               req[r].audioData, req[r].duration)
                /\ req' = [req EXCEPT ![r] =
                             [@ EXCEPT !.isNewChunk = TRUE, !.pc = "increment"]]
    /\ UNCHANGED chunksCount
    /\ UNCHANGED captureVars
    /\ UNCHANGED playVars
    /\ UNCHANGED sessionVars
    /\ UNCHANGED startVars
    /\ UNCHANGED storeVars
    /\ UNCHANGED clientVars

\* await session.update({chunksCount: {increment: 1}}) (lines 313-323), then 200.
IncrementAlways(r) ==
    /\ req[r].pc \in {"increment", "write"}
    /\ req[r].pc = "write" => req[r].existingChunk
    /\ chunksCount' = chunksCount + 1
    /\ audioChunks' =
          IF req[r].pc = "write"
          THEN PrismaUpdate(audioChunks, ChunkId(SessionId, req[r].chunkIndex),
                            req[r].audioData, req[r].duration)
          ELSE audioChunks
    /\ req' = [req EXCEPT ![r] = [@ EXCEPT !.pc = "done", !.status = 200]]
    /\ UNCHANGED captureVars
    /\ UNCHANGED playVars
    /\ UNCHANGED sessionVars
    /\ UNCHANGED startVars
    /\ UNCHANGED storeVars
    /\ UNCHANGED clientVars

PostIncrement(r) ==
    /\ req[r].pc = "increment"
    /\ chunksCount' = chunksCount + 1
    /\ req' = [req EXCEPT ![r] = [@ EXCEPT !.pc = "done", !.status = 200]]
    /\ UNCHANGED audioChunks
    /\ UNCHANGED captureVars
    /\ UNCHANGED playVars
    /\ UNCHANGED sessionVars
    /\ UNCHANGED startVars
    /\ UNCHANGED storeVars
    /\ UNCHANGED clientVars

NextUpload ==
    \/ \E r \in Requests, i \in ChunkIndices : PostValidate(r, i)
    \/ \E r \in Requests : PostFindExisting(r)
    \/ \E r \in Requests : PostUpdate(r)
    \/ \E r \in Requests : PostCreate(r)
    \/ \E r \in Requests : PostIncrement(r)

(***************************************************************************)
(* The browser: MediaRecorder and its event queue                          *)
(***************************************************************************)
DataEvent(size) == [type |-> "dataavailable", size |-> size]
StopEvent == [type |-> "stop", size |-> 0]

\* MediaRecorder.requestData(): the audio gathered so far is cut into a blob
\* and a dataavailable event is queued.
AfterRequestData(queue) == Append(queue, DataEvent(buffered))

\* The audio a recording MediaRecorder gathers while stop() sleeps its 500 ms
\* (line 705): less than a tick, and more than nothing.
DelayAudio == IF mrState = "recording" THEN 1 ELSE 0

\* MediaRecorder.stop() on a recorder that is not inactive: the rest of the
\* audio is cut into a blob, dataavailable and then stop are queued.
AfterMediaStop(queue) ==
    Append(Append(queue, DataEvent(buffered + DelayAudio)), StopEvent)

\* Time passes. A recording MediaRecorder gathers audio; once a timeslice of
\* it is gathered the dataavailable event is cut before more time passes.
Tick ==
    /\ mediaRecorder
    /\ now <= MaxTime
    /\ mrState = "recording" => buffered < ChunkTicks
    /\ now' = now + 1
    /\ buffered' = IF mrState = "recording" THEN buffered + 1 ELSE buffered
    /\ unpaused' = IF mrState = "recording" THEN unpaused + 1 ELSE unpaused
    /\ UNCHANGED <<tracks, mrState, eventQueue, onstop>>
    /\ UNCHANGED <<mediaRecorder, audioStream, audioContext, chunkTimer, chunks,
                   chunkIndex, chunkStartTime, pausedTime, isStopping,
                   finalChunkPromise, state, stopCall, emitted, lastChunk,
                   expectedAtStop>>
    /\ UNCHANGED hookVars
    /\ UNCHANGED serverVars
    /\ UNCHANGED playVars
    /\ UNCHANGED sessionVars
    /\ UNCHANGED startVars
    /\ UNCHANGED storeVars
    /\ UNCHANGED clientVars
    /\ UNCHANGED taskVars

\* mediaRecorder.start(chunkDuration): a timeslice of audio is gathered.
Timeslice ==
    /\ mrState = "recording"
    /\ buffered = ChunkTicks
    /\ eventQueue' = AfterRequestData(eventQueue)
    /\ buffered' = 0
    /\ UNCHANGED <<now, tracks, mrState, onstop>>
    /\ UNCHANGED recorderVars
    /\ UNCHANGED hookVars
    /\ UNCHANGED serverVars
    /\ UNCHANGED playVars
    /\ UNCHANGED sessionVars
    /\ UNCHANGED startVars
    /\ UNCHANGED storeVars
    /\ UNCHANGED clientVars
    /\ UNCHANGED taskVars

(***************************************************************************)
(* useAudioRecorder: the consumer of the recorder's callbacks              *)
(***************************************************************************)

\* The onStateChange listener of lines 169-189: saveRecordingState is started
\* when a session id is set; its put waits its turn on the store.
ListenerSaves(queue, sessionId, newState) ==
    IF sessionId # "null"
    THEN Append(queue, [op |-> "put",
                        value |-> [sessionId |-> sessionId,
                                   isRecording |-> newState.isRecording,
                                   isPaused |-> newState.isPaused,
                                   chunkCount |-> newState.chunkCount]])
    ELSE queue

\* handleChunk up to its first await (lines 58-73).
HandleChunkPending(pending, index) ==
    IF sessionIdRef = "null" THEN pending ELSE pending \cup {index}

\* The handleChunk call of one chunk: where it is, what storeChunk returned
\* and how its fetch ended.
TaskIndices == 0..MaxTime

IdleTask == [pc |-> "none", stored |-> "pending", upload |-> "none"]

\* handleChunk(chunk, index, duration) up to `await storeChunk(...)`
\* (lines 58-83): nothing is started without a session id.
HandleChunkBegins(tasks, index) ==
    IF sessionIdRef = "null" \/ index \notin TaskIndices
    THEN tasks
    ELSE [tasks EXCEPT ![index] = [IdleTask EXCEPT !.pc = "storing"]]

(***************************************************************************)
(* AudioRecorder                                                           *)
(***************************************************************************)
IdleStopCall ==
    [pc |-> "idle", finalChunk |-> "pending", timer |-> FALSE, outcome |-> "pending"]

InitCapture ==
    /\ now = 1    \* Date.now() is positive
    /\ tracks = [t \in {"mic", "display", "video", "mixed"} |-> "none"]
    /\ mrState = "inactive"
    /\ buffered = 0
    /\ eventQueue = <<>>
    /\ onstop = 0
    /\ mediaRecorder = FALSE
    /\ audioStream = {}
    /\ audioContext = FALSE
    /\ chunkTimer = FALSE
    /\ chunks = 0
    /\ chunkIndex = 0
    /\ chunkStartTime = 0
    /\ pausedTime = 0
    /\ isStopping = FALSE
    /\ finalChunkPromise = 0
    /\ state = [isRecording |-> FALSE, isPaused |-> FALSE, chunkCount |-> 0]
    /\ stopCall = [k \in StopCalls |-> IdleStopCall]
    /\ emitted = <<>>
    /\ lastChunk = [duration |-> 0, unpaused |-> 0]
    /\ unpaused = 0
    /\ expectedAtStop = 0 - 1
    /\ sessionIdRef = "null"
    /\ recorderRef = FALSE
    /\ pendingChunksRef = {}
    /\ hookStop = "idle"
    /\ recordingState = NoRecord
    /\ idbQueue = <<>>
    /\ chunkTask = [index \in TaskIndices |-> IdleTask]
    /\ chunkStore = {}
    /\ toasts = {}
    /\ waited = 0

\* The first settlement of a promise wins.
Settle(calls, k, outcome) ==
    IF calls[k].outcome = "pending" THEN [calls EXCEPT ![k].outcome = outcome] ELSE calls

\* cleanup(): stops the tracks of this.audioStream and resets the fields.
StoppedTracks ==
    [t \in DOMAIN tracks |-> IF t \in audioStream THEN "ended" ELSE tracks[t]]

Cleanup ==
    /\ chunkTimer' = FALSE
    /\ tracks' = StoppedTracks
    /\ audioStream' = {}
    /\ audioContext' = FALSE
    /\ mediaRecorder' = FALSE
    /\ chunks' = 0
    /\ chunkIndex' = 0
    /\ chunkStartTime' = 0
    /\ pausedTime' = 0
    /\ isStopping' = FALSE
    /\ finalChunkPromise' = 0

\* The streams start() acquires: the microphone alone, or the display capture
\* and the microphone mixed by an AudioContext into one output track.
AcquiredTracks(mode) ==
    IF mode = "mic"
    THEN [tracks EXCEPT !["mic"] = "live"]
    ELSE [t \in DOMAIN tracks |-> IF t = "video" THEN tracks[t] ELSE "live"]

RecordedStream(mode) == IF mode = "mic" THEN {"mic"} ELSE {"mixed"}

\* start() from the MediaRecorder it made to its end (lines 480-596), on the
\* stream it acquired; the listener of the hook sees the session id the hook
\* set before.
RecorderBegins(acquired, stream, context, sid) ==
    /\ tracks' = acquired
    /\ audioStream' = stream
    /\ audioContext' = context
    /\ mediaRecorder' = TRUE
    /\ mrState' = "recording"
    /\ chunkStartTime' = now
    /\ state' = [state EXCEPT !.isRecording = TRUE, !.isPaused = FALSE]
    /\ chunkTimer' = TRUE
    /\ idbQueue' = ListenerSaves(idbQueue, sid, state')
    /\ UNCHANGED <<now, buffered, eventQueue, onstop>>
    /\ UNCHANGED <<chunks, chunkIndex, pausedTime, isStopping, finalChunkPromise,
                   stopCall, emitted, lastChunk, unpaused, expectedAtStop>>
    /\ UNCHANGED <<pendingChunksRef, hookStop, recordingState>>

\* start() succeeding (lines 416-596), every source granted.
RecorderStart(mode, sid) ==
    /\ tracks["mic"] = "none"
    /\ RecorderBegins(AcquiredTracks(mode), RecordedStream(mode), mode = "system", sid)

\* A recorder started by a caller that keeps no session.
Start(mode) ==
    /\ RecorderStart(mode, sessionIdRef)
    /\ UNCHANGED <<sessionIdRef, recorderRef>>
    /\ UNCHANGED serverVars
    /\ UNCHANGED playVars
    /\ UNCHANGED sessionVars
    /\ UNCHANGED startVars
    /\ UNCHANGED storeVars
    /\ UNCHANGED clientVars
    /\ UNCHANGED taskVars

\* The hook's start(mode, sessionId) (lines 145-192).
HookStart(mode) ==
    /\ ~recorderRef
    /\ hookStop = "idle"
    /\ sessionIdRef' = SessionId
    /\ recorderRef' = TRUE
    /\ RecorderStart(mode, SessionId)
    /\ UNCHANGED serverVars
    /\ UNCHANGED playVars
    /\ UNCHANGED sessionVars
    /\ UNCHANGED startVars
    /\ UNCHANGED storeVars
    /\ UNCHANGED clientVars
    /\ UNCHANGED taskVars

\* actualDuration of the ondataavailable handler, in ticks
ActualDuration ==
    IF chunkStartTime > 0 THEN now - chunkStartTime ELSE ChunkTicks

\* this.chunkIndex++ after the onChunk call, in the final branch (line 523)
\* and in the regular one (line 532).
IndexAfterFinalKept(index, final) == IF final THEN index ELSE index + 1

IndexAfterChunk(index, final) == index + 1

\* The ondataavailable handler (lines 498-540) on the next queued event.
DeliverData ==
    /\ eventQueue # <<>>
    /\ Head(eventQueue).type = "dataavailable"
    /\ eventQueue' = Tail(eventQueue)
    /\ LET size == Head(eventQueue).size
           final == isStopping /\ finalChunkPromise # 0
       IN  IF size > 0
           THEN /\ chunks' = chunks + 1
                /\ emitted' = Append(emitted, chunkIndex)
                /\ lastChunk' = [duration |-> ActualDuration, unpaused |-> unpaused]
                /\ pendingChunksRef' = HandleChunkPending(pendingChunksRef, chunkIndex)
                /\ chunkTask' = HandleChunkBegins(chunkTask, chunkIndex)
                /\ unpaused' = 0
                /\ chunkIndex' = IndexAfterChunk(chunkIndex, final)
                /\ state' = [state EXCEPT !.chunkCount = chunkIndex']
                /\ IF final
                   THEN /\ stopCall' = [stopCall EXCEPT ![finalChunkPromise].finalChunk = "blob"]
                        /\ finalChunkPromise' = 0
                        /\ UNCHANGED chunkStartTime
                   ELSE /\ chunkStartTime' = now
                        /\ UNCHANGED <<stopCall, finalChunkPromise>>
           ELSE /\ IF final
                   THEN /\ stopCall' = [stopCall EXCEPT ![finalChunkPromise].finalChunk = "null"]
                        /\ finalChunkPromise' = 0
                   ELSE UNCHANGED <<stopCall, finalChunkPromise>>
                /\ UNCHANGED <<chunks, emitted, lastChunk, pendingChunksRef, unpaused,
                               chunkIndex, state, chunkStartTime, chunkTask>>
    /\ UNCHANGED <<now, tracks, mrState, buffered, onstop>>
    /\ UNCHANGED <<mediaRecorder, audioStream, audioContext, chunkTimer, pausedTime,
                   isStopping, expectedAtStop>>
    /\ UNCHANGED <<sessionIdRef, recorderRef, hookStop, recordingState, idbQueue>>
    /\ UNCHANGED <<chunkStore, toasts, waited>>
    /\ UNCHANGED serverVars
    /\ UNCHANGED playVars
    /\ UNCHANGED sessionVars
    /\ UNCHANGED startVars
    /\ UNCHANGED storeVars
    /\ UNCHANGED clientVars

\* The onstop handler set by stop() (lines 716-727) on the queued stop event.
DeliverStop ==
    /\ eventQueue # <<>>
    /\ Head(eventQueue).type = "stop"
    /\ eventQueue' = Tail(eventQueue)
    /\ IF onstop = 0
       THEN UNCHANGED <<tracks, recorderVars>>
       ELSE /\ stopCall' = Settle(stopCall, onstop,
                                  IF chunks > 0 THEN "resolved" ELSE "rejected")
            /\ Cleanup
            /\ UNCHANGED <<state, emitted, lastChunk, unpaused, expectedAtStop>>
    /\ UNCHANGED <<now, mrState, buffered, onstop>>
    /\ UNCHANGED hookVars
    /\ UNCHANGED serverVars
    /\ UNCHANGED playVars
    /\ UNCHANGED sessionVars
    /\ UNCHANGED startVars
    /\ UNCHANGED storeVars
    /\ UNCHANGED clientVars
    /\ UNCHANGED taskVars

\* pause() (lines 609-619); MediaRecorder.pause() throws on an inactive recorder.
PauseCuts ==
    /\ mediaRecorder /\ ~state.isPaused
    /\ mrState # "inactive"
    /\ Len(idbQueue) < MaxIdbQueue
    /\ mrState' = "paused"
    /\ pausedTime' = now
    /\ chunkStartTime' = now
    /\ state' = [state EXCEPT !.isPaused = TRUE]
    /\ idbQueue' = ListenerSaves(idbQueue, sessionIdRef, state')
    /\ eventQueue' = AfterRequestData(eventQueue)
    /\ buffered' = 0
    /\ UNCHANGED <<now, tracks, onstop>>
    /\ UNCHANGED <<mediaRecorder, audioStream, audioContext, chunkTimer, chunks,
                   chunkIndex, isStopping, finalChunkPromise, stopCall, emitted, lastChunk, unpaused,
                   expectedAtStop>>
    /\ UNCHANGED <<sessionIdRef, recorderRef, pendingChunksRef, hookStop, recordingState>>
    /\ UNCHANGED serverVars
    /\ UNCHANGED playVars
    /\ UNCHANGED sessionVars
    /\ UNCHANGED startVars
    /\ UNCHANGED storeVars
    /\ UNCHANGED clientVars
    /\ UNCHANGED taskVars

Pause ==
    /\ mediaRecorder /\ ~state.isPaused
    /\ mrState # "inactive"
    /\ Len(idbQueue) < MaxIdbQueue
    /\ mrState' = "paused"
    /\ pausedTime' = now
    /\ chunkStartTime' = now
    /\ state' = [state EXCEPT !.isPaused = TRUE]
    /\ idbQueue' = ListenerSaves(idbQueue, sessionIdRef, state')
    /\ UNCHANGED <<now, tracks, buffered, eventQueue, onstop>>
    /\ UNCHANGED <<mediaRecorder, audioStream, audioContext, chunkTimer, chunks,
                   chunkIndex, isStopping, finalChunkPromise, stopCall, emitted, lastChunk, unpaused,
                   expectedAtStop>>
    /\ UNCHANGED <<sessionIdRef, recorderRef, pendingChunksRef, hookStop, recordingState>>
    /\ UNCHANGED serverVars
    /\ UNCHANGED playVars
    /\ UNCHANGED sessionVars
    /\ UNCHANGED startVars
    /\ UNCHANGED storeVars
    /\ UNCHANGED clientVars
    /\ UNCHANGED taskVars

\* resume() (lines 624-636); MediaRecorder.resume() throws on an inactive recorder.
Resume ==
    /\ mediaRecorder /\ state.isPaused
    /\ mrState # "inactive"
    /\ Len(idbQueue) < MaxIdbQueue
    /\ mrState' = "recording"
    /\ chunkStartTime' = now
    /\ pausedTime' = 0
    /\ state' = [state EXCEPT !.isPaused = FALSE]
    /\ idbQueue' = ListenerSaves(idbQueue, sessionIdRef, state')
    /\ UNCHANGED <<now, tracks, buffered, eventQueue, onstop>>
    /\ UNCHANGED <<mediaRecorder, audioStream, audioContext, chunkTimer, chunks,
                   chunkIndex, isStopping, finalChunkPromise, stopCall, emitted, lastChunk, unpaused,
                   expectedAtStop>>
    /\ UNCHANGED <<sessionIdRef, recorderRef, pendingChunksRef, hookStop, recordingState>>
    /\ UNCHANGED serverVars
    /\ UNCHANGED playVars
    /\ UNCHANGED sessionVars
    /\ UNCHANGED startVars
    /\ UNCHANGED storeVars
    /\ UNCHANGED clientVars
    /\ UNCHANGED taskVars

\* The hook's pause() and resume() (lines 209-216).
HookPause == recorderRef /\ Pause

HookResume == recorderRef /\ Resume

\* The setInterval of updateDuration() (lines 769-775) notifies the listeners.
DurationInterval ==
    /\ chunkTimer
    /\ state.isRecording /\ ~state.isPaused
    /\ sessionIdRef # "null"
    /\ Len(idbQueue) < MaxIdbQueue
    /\ idbQueue' = ListenerSaves(idbQueue, sessionIdRef, state)
    /\ UNCHANGED <<browserVars, recorderVars>>
    /\ UNCHANGED <<sessionIdRef, recorderRef, pendingChunksRef, hookStop, recordingState>>
    /\ UNCHANGED serverVars
    /\ UNCHANGED playVars
    /\ UNCHANGED sessionVars
    /\ UNCHANGED startVars
    /\ UNCHANGED storeVars
    /\ UNCHANGED clientVars
    /\ UNCHANGED taskVars

\* The chunks whose audio is recorded by now: those already handed to
\* onChunk, the non-empty blobs waiting in the queue and the audio in progress.
ChunksDue ==
    Len(emitted)
    + Cardinality({j \in DOMAIN eventQueue : eventQueue[j].size > 0})
    + (IF buffered > 0 THEN 1 ELSE 0)

\* stop() up to its first await (lines 641-689), as call k.
RecorderStopBegin(k) ==
    /\ stopCall[k].pc = "idle"
    /\ IF ~mediaRecorder \/ mrState = "inactive"
       THEN /\ stopCall' = [stopCall EXCEPT ![k].pc = "end", ![k].outcome = "rejected"]
            /\ UNCHANGED <<isStopping, eventQueue, buffered, finalChunkPromise>>
       ELSE /\ isStopping' = TRUE
            /\ eventQueue' = AfterRequestData(eventQueue)
            /\ buffered' = 0
            /\ finalChunkPromise' = k
            /\ stopCall' = [stopCall EXCEPT ![k].pc = "awaitFinal", ![k].timer = TRUE]
    /\ expectedAtStop' = IF expectedAtStop < 0 THEN ChunksDue ELSE expectedAtStop
    /\ UNCHANGED <<now, tracks, mrState, onstop>>
    /\ UNCHANGED <<mediaRecorder, audioStream, audioContext, chunkTimer, chunks,
                   chunkIndex, chunkStartTime, pausedTime, state, emitted, lastChunk,
                   unpaused>>

\* The 2 s timer of lines 676-684.
FinalChunkTimeout(k) ==
    /\ stopCall[k].timer
    /\ IF finalChunkPromise # 0
       THEN /\ stopCall' = [stopCall EXCEPT ![k].timer = FALSE,
                                            ![finalChunkPromise].finalChunk = "null"]
            /\ finalChunkPromise' = 0
       ELSE /\ stopCall' = [stopCall EXCEPT ![k].timer = FALSE]
            /\ UNCHANGED finalChunkPromise
    /\ UNCHANGED browserVars
    /\ UNCHANGED <<mediaRecorder, audioStream, audioContext, chunkTimer, chunks,
                   chunkIndex, chunkStartTime, pausedTime, isStopping, state,
                   emitted, lastChunk, unpaused, expectedAtStop>>
    /\ UNCHANGED hookVars
    /\ UNCHANGED serverVars
    /\ UNCHANGED playVars
    /\ UNCHANGED sessionVars
    /\ UNCHANGED startVars
    /\ UNCHANGED storeVars
    /\ UNCHANGED clientVars
    /\ UNCHANGED taskVars

\* stop() after the final chunk promise resolved and the 500 ms delay
\* (lines 689-743), as call k.
StopContinue(k) ==
    /\ stopCall[k].pc = "awaitFinal"
    /\ stopCall[k].finalChunk # "pending"
    /\ IF ~mediaRecorder
       THEN /\ isStopping' = FALSE
            /\ finalChunkPromise' = 0
            /\ stopCall' = Settle([stopCall EXCEPT ![k].pc = "end"], k, "rejected")
            /\ UNCHANGED <<tracks, mrState, buffered, eventQueue, onstop>>
            /\ UNCHANGED <<mediaRecorder, audioStream, audioContext, chunkTimer, chunks,
                           chunkIndex, chunkStartTime, pausedTime, state>>
            /\ UNCHANGED idbQueue
       ELSE IF mrState = "inactive"
       THEN \* mediaRecorder.stop() on a recorder another call has stopped:
            \* browsers either throw InvalidStateError, caught at line 732,
            \* or return at once
            /\ onstop' = k
            /\ \/ /\ stopCall' = Settle([stopCall EXCEPT ![k].pc = "end"], k, "rejected")
                  /\ Cleanup
                  /\ UNCHANGED <<state, idbQueue>>
               \/ /\ stopCall' = [stopCall EXCEPT ![k].pc = "end"]
                  /\ state' = [state EXCEPT !.isRecording = FALSE]
                  /\ idbQueue' = ListenerSaves(idbQueue, sessionIdRef, state')
                  /\ UNCHANGED tracks
                  /\ UNCHANGED <<mediaRecorder, audioStream, audioContext, chunkTimer,
                                 chunks, chunkIndex, chunkStartTime, pausedTime,
                                 isStopping, finalChunkPromise>>
            /\ UNCHANGED <<mrState, buffered, eventQueue>>
       ELSE /\ onstop' = k
            /\ mrState' = "inactive"
            /\ eventQueue' = AfterMediaStop(eventQueue)
            /\ buffered' = 0
            /\ state' = [state EXCEPT !.isRecording = FALSE]
            /\ idbQueue' = ListenerSaves(idbQueue, sessionIdRef, state')
            /\ stopCall' = [stopCall EXCEPT ![k].pc = "end"]
            /\ UNCHANGED tracks
            /\ UNCHANGED <<mediaRecorder, audioStream, audioContext, chunkTimer, chunks,
                           chunkIndex, chunkStartTime, pausedTime, isStopping,
                           finalChunkPromise>>
    /\ UNCHANGED <<now, emitted, lastChunk, unpaused, expectedAtStop>>
    /\ UNCHANGED <<sessionIdRef, recorderRef, pendingChunksRef, hookStop, recordingState>>
    /\ UNCHANGED serverVars
    /\ UNCHANGED playVars
    /\ UNCHANGED sessionVars
    /\ UNCHANGED startVars
    /\ UNCHANGED storeVars
    /\ UNCHANGED clientVars
    /\ UNCHANGED taskVars

(***************************************************************************)
(* useAudioRecorder: stop()                                                *)
(***************************************************************************)

\* stop() called on the recorder by a caller that keeps no session.
Stop(k) ==
    /\ tracks["mic"] # "none"
    /\ RecorderStopBegin(k)
    /\ UNCHANGED hookVars
    /\ UNCHANGED serverVars
    /\ UNCHANGED playVars
    /\ UNCHANGED sessionVars
    /\ UNCHANGED startVars
    /\ UNCHANGED storeVars
    /\ UNCHANGED clientVars
    /\ UNCHANGED taskVars

\* The hook's stop() up to `await recorderRef.current.stop()` (lines 219-223).
HookStop ==
    /\ hookStop = "idle"
    /\ recorderRef
    /\ RecorderStopBegin(1)
    /\ hookStop' = "awaitRecorder"
    /\ UNCHANGED <<sessionIdRef, recorderRef, pendingChunksRef, recordingState, idbQueue>>
    /\ UNCHANGED serverVars
    /\ UNCHANGED playVars
    /\ UNCHANGED sessionVars
    /\ UNCHANGED startVars
    /\ UNCHANGED storeVars
    /\ UNCHANGED clientVars
    /\ UNCHANGED taskVars

\* The await of line 223 settles: on a rejection the catch of line 259
\* returns null.
HookStopSettled ==
    /\ hookStop = "awaitRecorder"
    /\ stopCall[1].outcome # "pending"
    /\ hookStop' = IF stopCall[1].outcome = "resolved" THEN "waiting" ELSE "returned"
    /\ UNCHANGED <<browserVars, recorderVars>>
    /\ UNCHANGED <<sessionIdRef, recorderRef, pendingChunksRef, recordingState, idbQueue>>
    /\ UNCHANGED serverVars
    /\ UNCHANGED playVars
    /\ UNCHANGED sessionVars
    /\ UNCHANGED startVars
    /\ UNCHANGED storeVars
    /\ UNCHANGED clientVars
    /\ UNCHANGED taskVars

\* The condition of the wait loop (lines 227-230) is false: no chunk is
\* pending, or maxWaitTime has passed since startWait.
WaitLoopExitNoTimeout(pending, polls) == pending = {}

WaitLoopExit(pending, polls) == pending = {} \/ polls >= MaxPolls

\* One turn of the wait loop (lines 227-235): chunks are pending and the
\* limit is not reached, stop() sleeps 500 ms.
HookStopPolls ==
    /\ hookStop = "waiting"
    /\ ~WaitLoopExit(pendingChunksRef, waited)
    /\ waited' = waited + 1
    /\ UNCHANGED <<chunkTask, chunkStore, toasts>>
    /\ UNCHANGED <<browserVars, recorderVars, hookVars>>
    /\ UNCHANGED serverVars
    /\ UNCHANGED playVars
    /\ UNCHANGED sessionVars
    /\ UNCHANGED startVars
    /\ UNCHANGED storeVars
    /\ UNCHANGED clientVars

\* The wait loop of lines 226-242 ends, with no chunk pending or on its
\* 10 s limit, and deleteRecordingState is started (lines 245-251).
HookStopWaited ==
    /\ hookStop = "waiting"
    /\ WaitLoopExit(pendingChunksRef, waited)
    /\ idbQueue' = IF sessionIdRef # "null"
                   THEN Append(idbQueue, [op |-> "delete", value |-> NoRecord])
                   ELSE idbQueue
    /\ hookStop' = IF sessionIdRef # "null" THEN "deleting" ELSE "clearing"
    /\ UNCHANGED taskVars
    /\ UNCHANGED <<browserVars, recorderVars>>
    /\ UNCHANGED <<sessionIdRef, recorderRef, pendingChunksRef, recordingState>>
    /\ UNCHANGED serverVars
    /\ UNCHANGED playVars
    /\ UNCHANGED sessionVars
    /\ UNCHANGED startVars
    /\ UNCHANGED storeVars
    /\ UNCHANGED clientVars

\* Lines 253-258.
HookStopReturn ==
    /\ hookStop = "clearing"
    /\ sessionIdRef' = "null"
    /\ pendingChunksRef' = {}
    /\ recorderRef' = FALSE
    /\ hookStop' = "returned"
    /\ UNCHANGED <<browserVars, recorderVars>>
    /\ UNCHANGED <<recordingState, idbQueue>>
    /\ UNCHANGED serverVars
    /\ UNCHANGED playVars
    /\ UNCHANGED sessionVars
    /\ UNCHANGED startVars
    /\ UNCHANGED storeVars
    /\ UNCHANGED clientVars
    /\ UNCHANGED taskVars

\* handleChunk's finally (lines 136-139): the store and the upload of chunk
\* `index` are over.
HandleChunkDone(index) ==
    /\ index \in pendingChunksRef
    /\ pendingChunksRef' = pendingChunksRef \ {index}
    /\ UNCHANGED <<browserVars, recorderVars>>
    /\ UNCHANGED <<sessionIdRef, recorderRef, hookStop, recordingState, idbQueue>>
    /\ UNCHANGED serverVars
    /\ UNCHANGED playVars
    /\ UNCHANGED sessionVars
    /\ UNCHANGED startVars
    /\ UNCHANGED storeVars
    /\ UNCHANGED clientVars
    /\ UNCHANGED taskVars

\* The recordingState store runs its oldest request: store.put(state) of
\* saveRecordingState.
IdbPut ==
    /\ idbQueue # <<>>
    /\ Head(idbQueue).op = "put"
    /\ recordingState' = Head(idbQueue).value
    /\ idbQueue' = Tail(idbQueue)
    /\ UNCHANGED <<browserVars, recorderVars>>
    /\ UNCHANGED <<sessionIdRef, recorderRef, pendingChunksRef, hookStop>>
    /\ UNCHANGED serverVars
    /\ UNCHANGED playVars
    /\ UNCHANGED sessionVars
    /\ UNCHANGED startVars
    /\ UNCHANGED storeVars
    /\ UNCHANGED clientVars
    /\ UNCHANGED taskVars

\* store.delete(sessionId) of deleteRecordingState; the await of line 247
\* resumes.
IdbDelete ==
    /\ idbQueue # <<>>
    /\ Head(idbQueue).op = "delete"
    /\ recordingState' = NoRecord
    /\ idbQueue' = Tail(idbQueue)
    /\ hookStop' = "clearing"
    /\ UNCHANGED <<browserVars, recorderVars>>
    /\ UNCHANGED <<sessionIdRef, recorderRef, pendingChunksRef>>
    /\ UNCHANGED serverVars
    /\ UNCHANGED playVars
    /\ UNCHANGED sessionVars
    /\ UNCHANGED startVars
    /\ UNCHANGED storeVars
    /\ UNCHANGED clientVars
    /\ UNCHANGED taskVars

(***************************************************************************)
(* useAudioRecorder: handleChunk after its first await                     *)
(***************************************************************************)

\* store.put(chunk) of storeChunk (lines 84-101 of indexeddb.ts): the record
\* is kept under its id when the request succeeds.
StorePutUnwritten(store, id, result) == store

StorePut(store, id, result) ==
    IF result = "success" THEN store \cup {id} ELSE store

\* `await storeChunk(...)` resumes with success or with a failure (IndexedDB
\* missing, open or put failing: storeChunk never throws), and handleChunk
\* goes on to `fetch(...)` (lines 77-110).
StoreChunkSettles(index, result) ==
    /\ chunkTask[index].pc = "storing"
    /\ chunkStore' = StorePut(chunkStore, ChunkId(SessionId, index), result)
    /\ chunkTask' = [chunkTask EXCEPT ![index].pc = "uploading",
                                      ![index].stored = result]
    /\ UNCHANGED <<toasts, waited>>
    /\ UNCHANGED <<browserVars, recorderVars, hookVars>>
    /\ UNCHANGED serverVars
    /\ UNCHANGED playVars
    /\ UNCHANGED sessionVars
    /\ UNCHANGED startVars
    /\ UNCHANGED storeVars
    /\ UNCHANGED clientVars

\* What handleChunk shows when the fetch has ended (lines 112-135).
UploadToastsOkUnchecked(index, outcome) ==
    IF outcome = "throw" THEN {<<"error processing", index>>}
    ELSE IF index < 3 THEN {<<"saved", index>>} ELSE {}

UploadToasts(index, outcome) ==
    IF outcome = "throw" THEN {<<"error processing", index>>}
    ELSE IF outcome = "error" THEN {<<"upload failed", index>>}
    ELSE IF index < 3 THEN {<<"saved", index>>} ELSE {}

\* `await fetch(...)` resumes with an ok response, with an error response, or
\* throws; then the finally of lines 136-139.
UploadSettles(index, outcome) ==
    /\ chunkTask[index].pc = "uploading"
    /\ toasts' = toasts \cup UploadToasts(index, outcome)
    /\ pendingChunksRef' = pendingChunksRef \ {index}
    /\ chunkTask' = [chunkTask EXCEPT ![index].pc = "done",
                                      ![index].upload = outcome]
    /\ UNCHANGED <<chunkStore, waited>>
    /\ UNCHANGED <<browserVars, recorderVars>>
    /\ UNCHANGED <<sessionIdRef, recorderRef, hookStop, recordingState, idbQueue>>
    /\ UNCHANGED serverVars
    /\ UNCHANGED playVars
    /\ UNCHANGED sessionVars
    /\ UNCHANGED startVars
    /\ UNCHANGED storeVars
    /\ UNCHANGED clientVars

\* A recording of the hook with the handleChunk call of every chunk.
NextChunks ==
    \/ \E mode \in {"mic", "system"} : HookStart(mode)
    \/ Tick
    \/ Timeslice
    \/ DeliverData
    \/ HookPause
    \/ HookResume
    \/ IdbPut
    \/ \E index \in TaskIndices, result \in {"success", "failed"} :
          StoreChunkSettles(index, result)
    \/ \E index \in TaskIndices, outcome \in {"ok", "error", "throw"} :
          UploadSettles(index, outcome)

(***************************************************************************)
(* Reassembly: lib/chunk-playback.ts, lib/chunk-validation.ts and the      *)
(* transcribe route                                                        *)
(***************************************************************************)
PlayIndices == 0..MaxChunkIndex

\* The bytes of the chunk of an index: one or two bytes, different for every
\* index.
BlobOf(index) == [k \in 1..((index % 2) + 1) |-> 16 * (index + 1) + k]

\* Buffer.from(arrayBuffer).toString('base64') (line 222 of the upload
\* route): three bytes become four characters, a character being its place
\* 0..63 in the base64 alphabet and 64 the padding '='.
RECURSIVE Base64Encode(_)
Base64Encode(bytes) ==
    IF Len(bytes) = 0 THEN <<>>
    ELSE LET b2 == IF Len(bytes) >= 2 THEN bytes[2] ELSE 0
             b3 == IF Len(bytes) >= 3 THEN bytes[3] ELSE 0
             n  == bytes[1] * 65536 + b2 * 256 + b3
         IN  << n \div 262144,
                (n \div 4096) % 64,
                IF Len(bytes) >= 2 THEN (n \div 64) % 64 ELSE 64,
                IF Len(bytes) >= 3 THEN n % 64 ELSE 64 >>
             \o Base64Encode(SubSeq(bytes, 4, Len(bytes)))

\* atob(chunk.audioData) copied into a Uint8Array (lines 108-113), and
\* Buffer.from(chunk.audioData, 'base64') (line 89 of the transcribe route):
\* four characters become three bytes, less one for every padding character.
RECURSIVE Base64Decode(_)
Base64Decode(chars) ==
    IF Len(chars) < 4 THEN <<>>
    ELSE LET c3 == IF chars[3] = 64 THEN 0 ELSE chars[3]
             c4 == IF chars[4] = 64 THEN 0 ELSE chars[4]
             n  == chars[1] * 262144 + chars[2] * 4096 + c3 * 64 + c4
             three == << n \div 65536, (n \div 256) % 256, n % 256 >>
             kept == IF chars[3] = 64 THEN 1 ELSE IF chars[4] = 64 THEN 2 ELSE 3
         IN  SubSeq(three, 1, kept) \o Base64Decode(SubSeq(chars, 5, Len(chars)))

\* [...].sort((a, b) => a.<index> - b.<index>) of records that have an index
\* each, given as a set.
RECURSIVE SortedByIndex(_, _)
SortedByIndex(S, indexOf) ==
    IF S = {} THEN <<>>
    ELSE LET first == CHOOSE c \in S : \A d \in S : indexOf[c] <= indexOf[d]
         IN  <<first>> \o SortedByIndex(S \ {first}, indexOf)

Range(seq) == {seq[k] : k \in DOMAIN seq}

\* reduce((sum, d) => sum + d, 0)
RECURSIVE SumOf(_)
SumOf(seq) ==
    IF seq = <<>> THEN 0 ELSE Head(seq) + SumOf(Tail(seq))

\* new Blob(chunks.map((c) => c.blob)) and Buffer.concat(audioBuffers)
RECURSIVE Concat(_)
Concat(blobs) ==
    IF blobs = <<>> THEN <<>> ELSE Head(blobs) \o Concat(Tail(blobs))

\* getChunks(sessionId) (lines 115-154 of indexeddb.ts): db is "ok", or
\* "unavailable" (no indexedDB), or "failing" (open or getAll fails).
GetChunks(db, store) ==
    IF db = "unavailable" THEN [chunks |-> <<>>, error |-> "IndexedDB not available"]
    ELSE IF db = "failing"
    THEN [chunks |-> <<>>, error |-> "Failed to retrieve chunks from IndexedDB"]
    ELSE [chunks |-> SortedByIndex(store, [c \in store |-> c.chunkIndex]), error |-> "none"]

\* prisma.audioChunk.findMany({where:{sessionId}, orderBy:{chunkIndex:'asc'}})
FindManyAsc(table) == SortedByIndex(Range(table), [row \in Range(table) |-> row.chunkIndex])

\* Lines 32-39: the local chunks that have a blob with bytes.
LocalPlayable(localChunkSeq) ==
    LET hasBytes(c) == Len(c.blob) > 0
        kept == SelectSeq(localChunkSeq, hasBytes)
    IN  [k \in DOMAIN kept |->
            [blob |-> kept[k].blob, index |-> kept[k].chunkIndex, duration |-> 30]]

\* Lines 104-125: a chunk of the response as a blob with its duration.
ServerChunk(row) ==
    [blob |-> IF Len(row.audioData) > 0 THEN Base64Decode(row.audioData) ELSE <<>>,
     index |-> row.chunkIndex,
     duration |-> row.duration]

\* The filter of lines 127-130.
KeptIfBytes(chunk) == Len(chunk.blob) > 0

KeptByServerFilter(chunk) == Len(chunk.blob) > 0 /\ chunk.duration > 0

\* Lines 102-133: converted, filtered, sorted by index.
ServerPlayable(serverChunks) ==
    LET converted == [k \in DOMAIN serverChunks |-> ServerChunk(serverChunks[k])]
        kept == SelectSeq(converted, KeptByServerFilter)
    IN  SortedByIndex(Range(kept), [c \in Range(kept) |-> c.index])

\* The returned ChunkPlaybackData: `combined` is the blob behind audioUrl.
Playback(playable) ==
    [chunks |-> playable,
     totalDuration |-> SumOf([k \in DOMAIN playable |-> playable[k].duration]),
     audioUrl |-> "blob",
     combined |-> Concat([k \in DOMAIN playable |-> playable[k].blob]),
     error |-> "none"]

PlaybackError(message) ==
    [chunks |-> <<>>, totalDuration |-> 0, audioUrl |-> "null", combined |-> <<>>,
     error |-> message]

\* Lines 79-186: fetch is "ok", or "status" (a response that is not ok), or
\* "throw" (fetch rejects).
ServerPlayback(fetch, table) ==
    IF fetch = "status" THEN PlaybackError("Failed to fetch chunks from server")
    ELSE IF fetch = "throw" THEN PlaybackError("Failed to fetch")
    ELSE IF Len(FindManyAsc(table)) = 0 THEN PlaybackError("No chunks found")
    ELSE Playback(ServerPlayable(FindManyAsc(table)))

\* Line 41 as a mutant: the local chunks are used whenever there are any.
LocalUsedIfAny(local) == Len(local.chunks) > 0

\* Lines 30 and 41: the local chunks are used when one of them has bytes.
LocalUsed(local) == Len(local.chunks) > 0 /\ Len(LocalPlayable(local.chunks)) > 0

\* getChunksForPlayback(sessionId, deviceId) (lines 23-187).
GetChunksForPlayback(db, store, fetch, table) ==
    LET indexedDBResult == GetChunks(db, store)
    IN  IF LocalUsed(indexedDBResult)
        THEN Playback(LocalPlayable(indexedDBResult.chunks))
        ELSE ServerPlayback(fetch, table)

\* POST /api/sessions/[id]/transcribe, lines 58-91: the status it answers
\* with when it stops there, 0 and the combined audio when it goes on.
TranscribeInput(table) ==
    LET allChunks == FindManyAsc(table)
        hasAudio(row) == Len(row.audioData) > 0
        chunksWithAudio == SelectSeq(allChunks, hasAudio)
    IN  IF Len(allChunks) = 0 \/ Len(chunksWithAudio) = 0
        THEN [status |-> 404, combinedAudio |-> <<>>]
        ELSE [status |-> 0,
              combinedAudio |->
                  Concat([k \in DOMAIN chunksWithAudio |->
                             Base64Decode(chunksWithAudio[k].audioData)])]

\* main() of the transcribe-session script (test/README.md, lines 264-306):
\* the chunks of GET .../chunks, those with audio data, sorted by index,
\* decoded and combined; the process exits with 1 when there is none.
ScriptInput(table) ==
    LET fetched == FindManyAsc(table)
        hasAudio(row) == Len(row.audioData) > 0
        chunksWithAudio == SelectSeq(fetched, hasAudio)
        sorted == SortedByIndex(Range(chunksWithAudio),
                                [row \in Range(chunksWithAudio) |-> row.chunkIndex])
    IN  IF Len(fetched) = 0 \/ Len(chunksWithAudio) = 0
        THEN [status |-> 1, combinedAudio |-> <<>>]
        ELSE [status |-> 0,
              combinedAudio |->
                  Concat([k \in DOMAIN sorted |-> Base64Decode(sorted[k].audioData)])]

\* validateChunkSequence(chunkIndices) (lines 18-66 of chunk-validation.ts):
\* an index is a duplicate each time it comes again in the sorted indices, a
\* gap when it lies between the lowest and the highest index and is not given.
ValidateChunkSequence(chunkIndices) ==
    IF Len(chunkIndices) = 0
    THEN [isValid |-> TRUE, gaps |-> <<>>, duplicates |-> <<>>,
          expectedCount |-> 0, actualCount |-> 0, lastIndex |-> 0 - 1]
    ELSE LET order == SortedByIndex(DOMAIN chunkIndices, chunkIndices)
             sorted == [k \in DOMAIN order |-> chunkIndices[order[k]]]
             seen == Range(chunkIndices)
             pairs == [k \in 1..(Len(sorted) - 1) |-> <<sorted[k], sorted[k + 1]>>]
             seenBefore(pair) == pair[1] = pair[2]
             again == SelectSeq(pairs, seenBefore)
             duplicates == [k \in DOMAIN again |-> again[k][2]]
             firstIndex == sorted[1]
             lastIndex == sorted[Len(sorted)]
             identity == [i \in firstIndex..lastIndex |-> i]
             gaps == SortedByIndex({i \in firstIndex..lastIndex : i \notin seen}, identity)
         IN  [isValid |-> Len(gaps) = 0 /\ Len(duplicates) = 0,
              gaps |-> gaps, duplicates |-> duplicates,
              expectedCount |-> lastIndex - firstIndex + 1,
              actualCount |-> Len(sorted),
              lastIndex |-> lastIndex]

NoCall == [op |-> "none"]

\* What was recorded for one index: the bytes and the measured duration of
\* the chunk, and where it is held.
ChunkKinds ==
    {[bytes |-> k[1], duration |-> k[2], held |-> h] :
        k \in {<<"some", 5>>, <<"some", 0>>, <<"empty", 5>>},
        h \in {"local", "server", "both"}}
        \cup {[bytes |-> "none", duration |-> 0, held |-> "nowhere"]}

BytesOf(kind, index) == IF kind.bytes = "some" THEN BlobOf(index) ELSE <<>>

LocalRecords(session) ==
    {[chunkIndex |-> i, blob |-> BytesOf(session[i], i)] :
        i \in {j \in PlayIndices : session[j].held \in {"local", "both"}}}

\* The rows of the session, the latest index first in the table.
RECURSIVE ServerRows(_, _)
ServerRows(session, i) ==
    IF i > MaxChunkIndex THEN <<>>
    ELSE ServerRows(session, i + 1) \o
         (IF session[i].held \in {"server", "both"}
          THEN <<[id |-> ChunkId(SessionId, i), chunkIndex |-> i,
                  audioData |-> Base64Encode(BytesOf(session[i], i)),
                  duration |-> session[i].duration]>>
          ELSE <<>>)

NothingRecorded ==
    /\ localChunks = {}
    /\ measured = [i \in PlayIndices |-> 0]
    /\ lastCall = NoCall

\* A session that was recorded earlier, whose chunks are in the local store,
\* on the server, or both.
Recorded(session) ==
    /\ audioChunks = ServerRows(session, 0)
    /\ chunksCount = Len(audioChunks)
    /\ req = [r \in Requests |-> IdleRequest]
    /\ localChunks = LocalRecords(session)
    /\ measured = [i \in PlayIndices |-> session[i].duration]
    /\ lastCall = NoCall

\* loadChunks of useChunkPlayback calls getChunksForPlayback.  The calls of
\* this section change nothing of what they read, so each run makes one.
LoadChunks(db, fetch) ==
    /\ lastCall = NoCall
    /\ lastCall' = [op |-> "playback", db |-> db, fetch |-> fetch,
                    result |-> GetChunksForPlayback(db, localChunks, fetch, audioChunks)]
    /\ UNCHANGED <<localChunks, measured>>
    /\ UNCHANGED <<serverVars, captureVars>>
    /\ UNCHANGED sessionVars
    /\ UNCHANGED startVars
    /\ UNCHANGED storeVars
    /\ UNCHANGED clientVars

\* POST /api/sessions/[id]/transcribe up to the combined audio.
Transcribe ==
    /\ lastCall = NoCall
    /\ lastCall' = [op |-> "transcribe", result |-> TranscribeInput(audioChunks)]
    /\ UNCHANGED <<localChunks, measured>>
    /\ UNCHANGED <<serverVars, captureVars>>
    /\ UNCHANGED sessionVars
    /\ UNCHANGED startVars
    /\ UNCHANGED storeVars
    /\ UNCHANGED clientVars

\* The transcribe-session script up to the combined audio.
TranscribeScript ==
    /\ lastCall = NoCall
    /\ lastCall' = [op |-> "script", result |-> ScriptInput(audioChunks)]
    /\ UNCHANGED <<localChunks, measured>>
    /\ UNCHANGED <<serverVars, captureVars>>
    /\ UNCHANGED sessionVars
    /\ UNCHANGED startVars
    /\ UNCHANGED storeVars
    /\ UNCHANGED clientVars

\* The index lists validateChunkSequence is given: up to MaxGiven indices,
\* in any order, an index any number of times.
RECURSIVE IndexLists(_)
IndexLists(n) ==
    IF n = 0 THEN {<<>>}
    ELSE IndexLists(n - 1) \cup
         {Append(list, i) : list \in {l \in IndexLists(n - 1) : Len(l) = n - 1},
                            i \in (0 - 1)..MaxChunkIndex}

\* validateChunkSequence on a list of indices.
ValidateIndices(chunkIndices) ==
    /\ lastCall = NoCall
    /\ lastCall' = [op |-> "validateIndices", given |-> chunkIndices,
                    result |-> ValidateChunkSequence(chunkIndices)]
    /\ UNCHANGED <<localChunks, measured>>
    /\ UNCHANGED <<serverVars, captureVars>>
    /\ UNCHANGED sessionVars
    /\ UNCHANGED startVars
    /\ UNCHANGED storeVars
    /\ UNCHANGED clientVars

NextValidate == \E chunkIndices \in IndexLists(MaxGiven) : ValidateIndices(chunkIndices)

\* validateChunkSequence on the indices of the rows of the session.
ValidateSequence ==
    /\ lastCall = NoCall
    /\ lastCall' = [op |-> "validate",
                    result |-> ValidateChunkSequence(
                        [k \in DOMAIN audioChunks |-> audioChunks[k].chunkIndex])]
    /\ UNCHANGED <<localChunks, measured>>
    /\ UNCHANGED <<serverVars, captureVars>>
    /\ UNCHANGED sessionVars
    /\ UNCHANGED startVars
    /\ UNCHANGED storeVars
    /\ UNCHANGED clientVars

NextPlayback ==
    \/ \E db \in {"ok", "unavailable", "failing"}, fetch \in {"ok", "status", "throw"} :
          LoadChunks(db, fetch)
    \/ Transcribe
    \/ TranscribeScript
    \/ ValidateSequence

(***************************************************************************)
(* The session row: PUT /api/sessions/[id], PUT .../chunks/[i]/transcript, *)
(* POST .../transcribe, POST .../summary                                   *)
(***************************************************************************)
SessionRequests == 1..NumSessionRequests

\* Text is a sequence of characters; <<>> also stands for null.
RECURSIVE TrimStart(_)
TrimStart(text) ==
    IF text # <<>> /\ Head(text) = " " THEN TrimStart(Tail(text)) ELSE text

RECURSIVE TrimEnd(_)
TrimEnd(text) ==
    IF text # <<>> /\ text[Len(text)] = " "
    THEN TrimEnd(SubSeq(text, 1, Len(text) - 1)) ELSE text

\* String.prototype.trim()
Trim(text) == TrimEnd(TrimStart(text))

\* texts.join(' ')
RECURSIVE Join(_)
Join(texts) ==
    IF texts = <<>> THEN <<>>
    ELSE IF Len(texts) = 1 THEN texts[1]
    ELSE texts[1] \o <<" ">> \o Join(Tail(texts))

NoDate == 0

NoValue == "absent"

\* The session as POST /api/sessions creates it.
CreatedSession ==
    [transcript |-> <<>>, summary |-> <<>>, status |-> "pending",
     duration |-> 0 - 1, recordingStartedAt |-> NoDate]

IdleSessionRequest ==
    [pc |-> "idle", body |-> [status |-> NoValue], data |-> [status |-> NoValue],
     answer |-> 0]

NewSession ==
    /\ sessionRow = CreatedSession
    /\ chunkTranscript = [i \in 0..MaxIndex |-> <<>>]
    /\ sessionReq = [q \in SessionRequests |-> IdleSessionRequest]
    /\ serverClock = 1

\* The bodies a client sends to PUT /api/sessions/[id]: the fields of
\* updateSessionSchema that matter here, and one with a key the schema does
\* not have.
UpdateBodies ==
    {[status |-> "recording"], [status |-> "paused"],
     [status |-> "completed", duration |-> 60],
     [status |-> "recording", chunksCount |-> 0, recordingStartedAt |-> NoDate]}

\* updateSessionSchema.parse(body) without deviceId (lines 5-14, 101): a
\* z.object drops the keys it does not name.
UpdateDataPassthrough(body) == body

UpdateData(body) ==
    [key \in DOMAIN body \cap {"title", "transcript", "summary", "status", "duration"}
        |-> body[key]]

\* prisma.session.update({where:{id}, data}): the columns that data names.
SessionUpdated(row, data) ==
    [column \in DOMAIN row |-> IF column \in DOMAIN data THEN data[column] ELSE row[column]]

CountUpdated(count, data) ==
    IF "chunksCount" \in DOMAIN data THEN data.chunksCount ELSE count

\* The server clock moves on.
ClockTick ==
    /\ serverClock < MaxServerClock
    /\ serverClock' = serverClock + 1
    /\ UNCHANGED <<sessionRow, chunkTranscript, sessionReq>>
    /\ UNCHANGED <<serverVars, captureVars, playVars>>
    /\ UNCHANGED startVars
    /\ UNCHANGED storeVars
    /\ UNCHANGED clientVars

\* Line 133: !session?.recordingStartedAt
StartedAtUnset(found) == found = NoDate

\* PUT /api/sessions/[id] up to the update (lines 98-136): body parsed, user
\* and session found; for status 'recording' the row's recordingStartedAt is
\* read and, when it is not set, new Date() is put into the data.
PutSessionPrepares(q, body) ==
    /\ sessionReq[q].pc = "idle"
    /\ LET updateData == UpdateData(body)
           dataToUpdate ==
               IF updateData.status = "recording"
                  /\ StartedAtUnset(sessionRow.recordingStartedAt)
               THEN [column \in DOMAIN updateData \cup {"recordingStartedAt"} |->
                        IF column = "recordingStartedAt" THEN serverClock
                        ELSE updateData[column]]
               ELSE updateData
       IN  sessionReq' = [sessionReq EXCEPT ![q] =
                            [pc |-> "update", body |-> body, data |-> dataToUpdate,
                             answer |-> 0]]
    /\ UNCHANGED <<sessionRow, chunkTranscript, serverClock>>
    /\ UNCHANGED <<serverVars, captureVars, playVars>>
    /\ UNCHANGED startVars
    /\ UNCHANGED storeVars
    /\ UNCHANGED clientVars

\* await prisma.session.update (lines 138-157), answered 200.
PutSessionUpdates(q) ==
    /\ sessionReq[q].pc = "update"
    /\ sessionRow' = SessionUpdated(sessionRow, sessionReq[q].data)
    /\ chunksCount' = CountUpdated(chunksCount, sessionReq[q].data)
    /\ sessionReq' = [sessionReq EXCEPT ![q].pc = "done", ![q].answer = 200]
    /\ UNCHANGED <<chunkTranscript, serverClock>>
    /\ UNCHANGED <<audioChunks, req>>
    /\ UNCHANGED <<captureVars, playVars>>
    /\ UNCHANGED startVars
    /\ UNCHANGED storeVars
    /\ UNCHANGED clientVars

\* The transcripts of the chunks that have one, by index, joined and trimmed
\* (lines 103-116).
MergedTranscript(table, transcripts) ==
    LET rows == FindManyAsc(table)
        hasTranscript(row) == transcripts[row.chunkIndex] # <<>>
        withTranscript == SelectSeq(rows, hasTranscript)
    IN  Trim(Join([k \in DOMAIN withTranscript |->
                      transcripts[withTranscript[k].chunkIndex]]))

\* PUT /api/sessions/[id]/chunks/[chunkIndex]/transcript (lines 9-155): 400
\* without a transcript, 404 without the chunk; else the chunk's transcript
\* is set and the session's becomes the merged one when that is not empty.
PutChunkTranscript(q, index, transcript) ==
    /\ sessionReq[q].pc = "idle"
    /\ IF transcript = <<>>
       THEN /\ sessionReq' = [sessionReq EXCEPT ![q].pc = "done", ![q].answer = 400]
            /\ UNCHANGED <<sessionRow, chunkTranscript>>
       ELSE IF ~FindUnique(audioChunks, ChunkId(SessionId, index))
       THEN /\ sessionReq' = [sessionReq EXCEPT ![q].pc = "done", ![q].answer = 404]
            /\ UNCHANGED <<sessionRow, chunkTranscript>>
       ELSE /\ chunkTranscript' = [chunkTranscript EXCEPT ![index] = transcript]
            /\ LET mergedTranscript == MergedTranscript(audioChunks, chunkTranscript')
               IN  sessionRow' = IF mergedTranscript # <<>>
                                 THEN [sessionRow EXCEPT !.transcript = mergedTranscript]
                                 ELSE sessionRow
            /\ sessionReq' = [sessionReq EXCEPT ![q].pc = "done", ![q].answer = 200]
    /\ UNCHANGED serverClock
    /\ UNCHANGED <<serverVars, captureVars, playVars>>
    /\ UNCHANGED startVars
    /\ UNCHANGED storeVars
    /\ UNCHANGED clientVars

\* Line 145 as a mutant: no transcript counts as empty.
TranscriptEmptyNever(transcript) == FALSE

\* Line 145: !transcript || transcript.trim().length === 0
TranscriptEmpty(transcript) == transcript = <<>> \/ Len(Trim(transcript)) = 0

\* What the route answers: the status and the transcript of the body.
Answer(status, text) == [status |-> status, transcript |-> text]

\* POST /api/sessions/[id]/transcribe (lines 58-170): 404 without audio, 400
\* on an error of the speech-to-text service; an empty transcript is
\* answered 200 with '' and nothing written; else the session gets the
\* trimmed transcript and status 'processing'.  deepgram is "error" or the
\* transcript of the result.
TranscribeSession(q, deepgram) ==
    /\ sessionReq[q].pc = "idle"
    /\ LET input == TranscribeInput(audioChunks)
           answered(response) ==
               sessionReq' = [sessionReq EXCEPT ![q] =
                   [pc |-> "done", body |-> [status |-> NoValue, deepgram |-> deepgram],
                    data |-> [status |-> NoValue], answer |-> response]]
       IN  IF input.status # 0
           THEN /\ answered(Answer(input.status, <<>>))
                /\ UNCHANGED sessionRow
           ELSE IF deepgram = <<"error">>
           THEN /\ answered(Answer(400, <<>>))
                /\ UNCHANGED sessionRow
           ELSE IF TranscriptEmpty(deepgram)
           THEN /\ answered(Answer(200, <<>>))
                /\ UNCHANGED sessionRow
           ELSE /\ answered(Answer(200, Trim(deepgram)))
                /\ sessionRow' = SessionUpdated(sessionRow,
                                    [transcript |-> Trim(deepgram), status |-> "processing"])
    /\ UNCHANGED <<chunkTranscript, serverClock>>
    /\ UNCHANGED <<serverVars, captureVars, playVars>>
    /\ UNCHANGED startVars
    /\ UNCHANGED storeVars
    /\ UNCHANGED clientVars

\* POST /api/sessions/[id]/summary (lines 58-113): 400 without a transcript,
\* 500 on an empty summary; else the session gets the trimmed summary and
\* status 'completed'.
SummarizeSession(q, summary) ==
    /\ sessionReq[q].pc = "idle"
    /\ IF Len(Trim(sessionRow.transcript)) = 0
       THEN /\ sessionReq' = [sessionReq EXCEPT ![q].pc = "done", ![q].answer = 400]
            /\ UNCHANGED sessionRow
       ELSE IF Len(Trim(summary)) = 0
       THEN /\ sessionReq' = [sessionReq EXCEPT ![q].pc = "done", ![q].answer = 500]
            /\ UNCHANGED sessionRow
       ELSE /\ sessionReq' = [sessionReq EXCEPT ![q].pc = "done", ![q].answer = 200]
            /\ sessionRow' = SessionUpdated(sessionRow,
                                [summary |-> Trim(summary), status |-> "completed"])
    /\ UNCHANGED <<chunkTranscript, serverClock>>
    /\ UNCHANGED <<serverVars, captureVars, playVars>>
    /\ UNCHANGED startVars
    /\ UNCHANGED storeVars
    /\ UNCHANGED clientVars

\* What the speech-to-text service, the summariser and the client's chunk
\* transcripts may be.
Texts == {<<>>, <<" ">>, <<"a">>, <<" ", "b", " ">>}

\* The routes of one session, with uploads of its first chunks by one client.
NextSession ==
    \/ \E i \in 0..1 : PostValidate(1, i)
    \/ PostFindExisting(1)
    \/ PostUpdate(1)
    \/ PostCreate(1)
    \/ PostIncrement(1)
    \/ ClockTick
    \/ \E q \in SessionRequests, body \in UpdateBodies : PutSessionPrepares(q, body)
    \/ \E q \in SessionRequests : PutSessionUpdates(q)
    \/ \E q \in SessionRequests, i \in 0..1, text \in Texts : PutChunkTranscript(q, i, text)
    \/ \E q \in SessionRequests, text \in Texts \cup {<<"error">>} : TranscribeSession(q, text)
    \/ \E q \in SessionRequests, text \in Texts : SummarizeSession(q, text)

(***************************************************************************)
(* The socket server: transcription segments                               *)
(***************************************************************************)

\* The number of characters at the end of text that are (isSpace) or are not
\* whitespace.
RECURSIVE TrailingRun(_, _)
TrailingRun(text, isSpace) ==
    IF text # <<>> /\ ((text[Len(text)] = " ") = isSpace)
    THEN 1 + TrailingRun(SubSeq(text, 1, Len(text) - 1), isSpace)
    ELSE 0

\* text.replace(/\s+\S+$/, ''): the last word and the whitespace before it
\* are removed; a text that ends in whitespace or is one word is kept.
RemoveLastWord(text) ==
    LET word == TrailingRun(text, FALSE)
        rest == SubSeq(text, 1, Len(text) - word)
        space == TrailingRun(rest, TRUE)
    IN  IF word > 0 /\ space > 0 THEN SubSeq(rest, 1, Len(rest) - space) ELSE text

\* Lines 35-44: an interim segment is appended to the chunk's transcript, a
\* final one replaces its last word; without a transcript the segment is it.
UpdatedTranscript(existing, transcript, isFinal) ==
    IF existing # <<>> /\ ~isFinal THEN Trim(existing \o <<" ">> \o transcript)
    ELSE IF existing # <<>> THEN Trim(RemoveLastWord(existing) \o <<" ">> \o transcript)
    ELSE transcript

\* The audioData of a row that was created without one.
NoAudioData == <<>>

\* Lines 47-63: audioChunk.upsert: the row is created, without audio and
\* with duration 30, when the chunk has none.
Upsert(table, id, index) ==
    IF FindUnique(table, id) THEN table
    ELSE PrismaCreate(table, id, index, NoAudioData, 30)

\* persistTranscriptionSegment (lines 20-74) for a segment of the session, as
\* the 'transcription:segment' and 'transcription:chunk-complete' events of
\* the socket call it: the chunk's transcript is upserted and the session's
\* transcript becomes the merged one when that is not empty. With the two
\* lowest indices an empty transcript and no transcript merge alike.
PersistTranscriptionSegment(index, transcript, isFinal) ==
    /\ LET chunkId == ChunkId(SessionId, index)
           updatedTranscript == UpdatedTranscript(chunkTranscript[index], transcript, isFinal)
       IN  /\ Len(updatedTranscript) <= MaxTranscript
           /\ audioChunks' = Upsert(audioChunks, chunkId, index)
           /\ chunkTranscript' = [chunkTranscript EXCEPT ![index] = updatedTranscript]
           /\ LET mergedTranscript == MergedTranscript(audioChunks', chunkTranscript')
              IN  sessionRow' = IF mergedTranscript # <<>>
                                THEN [sessionRow EXCEPT !.transcript = mergedTranscript]
                                ELSE sessionRow
    /\ UNCHANGED <<chunksCount, req>>
    /\ UNCHANGED <<sessionReq, serverClock>>
    /\ UNCHANGED <<captureVars, playVars>>
    /\ UNCHANGED startVars
    /\ UNCHANGED storeVars
    /\ UNCHANGED clientVars

\* The uploads of one client and the segments of the transcription of one
\* session.
NextSegments ==
    \/ \E i \in 0..1 : PostValidate(1, i)
    \/ PostFindExisting(1)
    \/ PostUpdate(1)
    \/ PostCreate(1)
    \/ PostIncrement(1)
    \/ \E i \in 0..1, text \in Texts, isFinal \in BOOLEAN :
          PersistTranscriptionSegment(i, text, isFinal)

(***************************************************************************)
(* useAudioRecorder.start() and AudioRecorder.start(): acquiring the       *)
(* sources                                                                 *)
(***************************************************************************)

\* The sessionId arguments of start(): a session id, the empty string and
\* the strings 'null' and 'undefined'.
SessionIdArgs == {SessionId, "", "null", "undefined"}

\* The validation of line 149.
ValidSessionIdNonEmpty(sid) == sid # ""

ValidSessionId(sid) == ~(sid = "" \/ sid = "null" \/ sid = "undefined")

\* What getDisplayMedia gives: "denied" when both requests throw, "audioOnly"
\* when the audio-only request gives an audio track, "withVideo" when only
\* the request with video succeeds and carries an audio track, "noAudio"
\* when it carries none.
DisplayOutcomes == {"denied", "audioOnly", "withVideo", "noAudio"}

\* What getUserMedia gives: a rejection, a stream without audio track, or a
\* stream with one.
MicOutcomes == {"denied", "empty", "ok"}

\* Whether new MediaRecorder(stream, options) and its start() work.
MediaOutcomes == {"ok", "unsupported"}

DisplayTracks(display) ==
    CASE display = "audioOnly" -> {"display"}
      [] display = "withVideo" -> {"display", "video"}
      [] display = "noAudio" -> {"video"}
      [] OTHER -> {}

\* requestMicrophone() (lines 235-251): the stream, and the tracks left live
\* and ended when it returns or throws.
RequestMicrophone(mic) ==
    [ok |-> mic # "denied",
     stream |-> IF mic = "ok" THEN {"mic"} ELSE {},
     live |-> IF mic = "ok" THEN {"mic"} ELSE {},
     ended |-> {}]

\* requestSystemAudio() (lines 258-411): the microphone is asked for only once
\* the display capture has an audio track; the video track of the fallback
\* request is stopped at once; whatever fails, the catch blocks stop every
\* track of both streams.
RequestSystemAudioDegrades(display, mic) ==
    LET displayOk == "display" \in DisplayTracks(display)
        bothOk == displayOk /\ mic = "ok"
    IN  [ok |-> displayOk,
         stream |-> IF bothOk THEN {"mixed"} ELSE IF displayOk THEN {"display"} ELSE {},
         live |-> IF bothOk THEN {"display", "mic", "mixed"}
                  ELSE IF displayOk THEN {"display"} ELSE {},
         ended |-> DisplayTracks(display) \cap {"video"}]

RequestSystemAudio(display, mic) ==
    LET displayOk == "display" \in DisplayTracks(display)
        micTracks == IF displayOk THEN RequestMicrophone(mic).live ELSE {}
        bothOk == displayOk /\ mic = "ok"
    IN  [ok |-> bothOk,
         stream |-> IF bothOk THEN {"mixed"} ELSE {},
         live |-> IF bothOk THEN {"display", "mic", "mixed"} ELSE {},
         ended |-> IF bothOk THEN DisplayTracks(display) \cap {"video"}
                   ELSE DisplayTracks(display) \cup micTracks]

\* The tracks after an acquisition.
TracksAfter(acquisition) ==
    [t \in DOMAIN tracks |->
        IF t \in acquisition.live THEN "live"
        ELSE IF t \in acquisition.ended THEN "ended" ELSE tracks[t]]

\* A call of start() and the answers it got; "unasked" for what it never
\* asked for.
StartCall(mode, sid, display, mic, media, outcome) ==
    LET displayAsked == ValidSessionId(sid) /\ mode = "system"
        micAsked == /\ ValidSessionId(sid)
                    /\ mode = "system" => "display" \in DisplayTracks(display)
        mediaAsked == micAsked /\ mic = "ok"
    IN  [mode |-> mode, sessionId |-> sid,
         display |-> IF displayAsked THEN display ELSE "unasked",
         mic |-> IF micAsked THEN mic ELSE "unasked",
         media |-> IF mediaAsked THEN media ELSE "unasked",
         outcome |-> outcome]

NoStartCall ==
    [mode |-> "none", sessionId |-> "null", display |-> "unasked", mic |-> "unasked",
     media |-> "unasked", outcome |-> "none"]

NotStarted ==
    /\ lastStart = NoStartCall
    /\ onErrorCalls = 0
    /\ stateError = FALSE
    /\ hookError = FALSE

\* The hook's start(mode, sessionId) (lines 145-206) with the recorder's
\* start() (lines 416-604), whole: the validation of the session id, the
\* acquisition of the sources, the MediaRecorder, and the catch blocks of
\* both.  A call follows only calls that were rejected with no track left
\* live.
HookStartRuns(mode, sid, display, mic, media) ==
    /\ hookStop = "idle"
    /\ ~mediaRecorder
    /\ lastStart.outcome # "resolved"
    /\ \A t \in DOMAIN tracks : tracks[t] # "live"
    /\ Len(idbQueue) < MaxIdbQueue
    /\ LET acquisition == IF mode = "mic" THEN RequestMicrophone(mic)
                          ELSE RequestSystemAudio(display, mic)
           acquired == acquisition.ok /\ acquisition.stream # {}
       IN  IF ~ValidSessionId(sid)
           THEN \* line 150 throws, the catch of line 193 sets the error
                /\ lastStart' = StartCall(mode, sid, display, mic, media, "rejected")
                /\ hookError' = TRUE
                /\ UNCHANGED <<onErrorCalls, stateError>>
                /\ UNCHANGED <<browserVars, recorderVars, hookVars>>
           ELSE /\ sessionIdRef' = sid
                /\ recorderRef' = TRUE
                /\ UNCHANGED onErrorCalls
                /\ IF acquired /\ media = "ok"
                   THEN /\ RecorderBegins(TracksAfter(acquisition), acquisition.stream,
                                          mode = "system", sid)
                        /\ stateError' = FALSE
                        /\ hookError' = FALSE
                        /\ lastStart' = StartCall(mode, sid, display, mic, media, "resolved")
                   ELSE \* the catch of lines 597-603, then the one of the hook
                        /\ tracks' = TracksAfter(acquisition)
                        /\ audioStream' = IF acquired THEN acquisition.stream ELSE {}
                        /\ audioContext' = (acquired /\ mode = "system")
                        /\ state' = [state EXCEPT !.isRecording = FALSE]
                        /\ stateError' = TRUE
                        /\ hookError' = TRUE
                        /\ idbQueue' = ListenerSaves(idbQueue, sid, state')
                        /\ lastStart' = StartCall(mode, sid, display, mic, media, "rejected")
                        /\ UNCHANGED <<now, mrState, buffered, eventQueue, onstop>>
                        /\ UNCHANGED <<mediaRecorder, chunkTimer, chunks, chunkIndex,
                                       chunkStartTime, pausedTime, isStopping,
                                       finalChunkPromise, stopCall, emitted, lastChunk,
                                       unpaused, expectedAtStop>>
                        /\ UNCHANGED <<pendingChunksRef, hookStop, recordingState>>
    /\ UNCHANGED taskVars

\* A call of the hook's start() by itself.
HookStartCall(mode, sid, display, mic, media) ==
    /\ HookStartRuns(mode, sid, display, mic, media)
    /\ UNCHANGED serverVars
    /\ UNCHANGED playVars
    /\ UNCHANGED sessionVars
    /\ UNCHANGED storeVars
    /\ UNCHANGED clientVars

\* The MediaRecorder fails while it records: it becomes inactive and queues
\* its last blob and a stop event, and its onerror handler (lines 542-549)
\* sets state.error, notifies the listeners and calls options.onError.
MediaRecorderError ==
    /\ mediaRecorder
    /\ mrState # "inactive"
    /\ Len(idbQueue) < MaxIdbQueue
    /\ mrState' = "inactive"
    /\ eventQueue' = AfterMediaStop(eventQueue)
    /\ buffered' = 0
    /\ stateError' = TRUE
    /\ hookError' = TRUE
    /\ onErrorCalls' = onErrorCalls + 1
    /\ idbQueue' = ListenerSaves(idbQueue, sessionIdRef, state)
    /\ UNCHANGED lastStart
    /\ UNCHANGED <<now, tracks, onstop>>
    /\ UNCHANGED recorderVars
    /\ UNCHANGED <<sessionIdRef, recorderRef, pendingChunksRef, hookStop, recordingState>>
    /\ UNCHANGED serverVars
    /\ UNCHANGED playVars
    /\ UNCHANGED sessionVars
    /\ UNCHANGED storeVars
    /\ UNCHANGED clientVars
    /\ UNCHANGED taskVars

\* The hook from its start(): calls of start() until one succeeds, then
\* chunks, pauses and a device error.
NextStart ==
    \/ \E mode \in {"mic", "system"}, sid \in SessionIdArgs, display \in DisplayOutcomes,
          mic \in MicOutcomes, media \in MediaOutcomes :
          HookStartCall(mode, sid, display, mic, media)
    \/ MediaRecorderError
    \/ Tick
    \/ Timeslice
    \/ DeliverData
    \/ DeliverStop
    \/ HookPause
    \/ HookResume
    \/ IdbPut

\* One capture from start() to the end of stop(), on a browser that grants
\* the display capture and supports MediaRecorder.
NextCapture ==
    \/ \E mode \in {"mic", "system"}, sid \in SessionIdArgs, mic \in MicOutcomes :
          HookStartCall(mode, sid, "audioOnly", mic, "ok")
    \/ MediaRecorderError
    \/ Tick
    \/ Timeslice
    \/ DeliverData
    \/ DeliverStop
    \/ HookPause
    \/ HookResume
    \/ HookStop
    \/ FinalChunkTimeout(1)
    \/ StopContinue(1)
    \/ IdbPut

NextRecorder ==
    \/ \E mode \in {"mic", "system"} : Start(mode)
    \/ Tick
    \/ Timeslice
    \/ DeliverData
    \/ DeliverStop
    \/ Pause
    \/ Resume
    \/ \E k \in StopCalls : Stop(k)
    \/ \E k \in StopCalls : FinalChunkTimeout(k)
    \/ \E k \in StopCalls : StopContinue(k)

\* One recording from start() to a single stop().
NextRecording ==
    \/ \E mode \in {"mic", "system"} : Start(mode)
    \/ Tick
    \/ Timeslice
    \/ DeliverData
    \/ DeliverStop
    \/ Pause
    \/ Resume
    \/ Stop(1)
    \/ FinalChunkTimeout(1)
    \/ StopContinue(1)

NextHook ==
    \/ \E mode \in {"mic", "system"} : HookStart(mode)
    \/ Tick
    \/ Timeslice
    \/ DeliverData
    \/ DeliverStop
    \/ HookPause
    \/ HookResume
    \/ DurationInterval
    \/ HookStop
    \/ \E k \in StopCalls : FinalChunkTimeout(k)
    \/ \E k \in StopCalls : StopContinue(k)
    \/ HookStopSettled
    \/ HookStopPolls
    \/ HookStopWaited
    \/ HookStopReturn
    \/ \E index \in 0..MaxTime : HandleChunkDone(index)
    \/ IdbPut
    \/ IdbDelete

(***************************************************************************)
(* app/page.tsx: the page before a recording                               *)
(***************************************************************************)
EffectRuns == 1..NumEffectRuns

LeftOverIndices == 0..MaxLeftOver

\* No session fetched yet.
NoSession == [status |-> NoValue]

IdleEffect == [pc |-> "idle", session |-> NoSession]

\* The state of Home() when it mounts (lines 16-21): no session, not
\* starting; the status effect has run with these values.
PageIdle ==
    /\ currentSessionId = "null"
    /\ isStarting = FALSE
    /\ modeSelect = "idle"
    /\ stopClick = [pc |-> "idle", session |-> NoSession]
    /\ effectDeps = <<FALSE, "null">>
    /\ statusEffect = [e \in EffectRuns |-> IdleEffect]

\* The page as it mounts, the hook at its first session.
ClientIdle == PageIdle /\ leftOver = {}

\* Math.floor(duration / 1000) of lines 76 and 214: the whole seconds of a
\* recording that is shorter than one second.
DurationSeconds == 0

\* PUT /api/sessions/[id] as updateSession sends it (useSessions.ts lines
\* 171-196: transcript, summary, status and duration of the session object),
\* from the parse of the body to the update (route lines 98-157).
PutSession(row, session, status, duration) ==
    LET body == [transcript |-> session.transcript, summary |-> session.summary,
                 status |-> status, duration |-> duration]
        updateData == UpdateData(body)
        dataToUpdate ==
            IF updateData.status = "recording" /\ StartedAtUnset(row.recordingStartedAt)
            THEN [column \in DOMAIN updateData \cup {"recordingStartedAt"} |->
                     IF column = "recordingStartedAt" THEN serverClock
                     ELSE updateData[column]]
            ELSE updateData
    IN  SessionUpdated(row, dataToUpdate)

\* What every step of the page leaves alone on the server.
PageFrame ==
    /\ UNCHANGED <<chunkTranscript, sessionReq, serverClock>>
    /\ UNCHANGED serverVars
    /\ UNCHANGED playVars
    /\ UNCHANGED storeVars
    /\ UNCHANGED leftOver

\* handleModeSelect up to `await createSession()` (lines 114-127); the
\* buttons that call it are shown while nothing is recorded.
ModeSelectBegins ==
    /\ modeSelect = "idle"
    /\ stopClick.pc = "idle"
    /\ ~state.isRecording
    /\ isStarting' = TRUE
    /\ modeSelect' = "createSession"
    /\ UNCHANGED <<currentSessionId, stopClick, effectDeps, statusEffect>>
    /\ UNCHANGED sessionRow
    /\ UNCHANGED <<captureVars, startVars>>
    /\ PageFrame

\* createSession() resumes with the session or with null (lines 127-136):
\* null is thrown into the catch of lines 157-175.
CreateSessionSettles(outcome) ==
    /\ modeSelect = "createSession"
    /\ IF outcome = "ok"
       THEN /\ currentSessionId' = SessionId
            /\ modeSelect' = "updateSession"
            /\ UNCHANGED isStarting
       ELSE /\ currentSessionId' = "null"
            /\ modeSelect' = "failed"
            /\ isStarting' = FALSE
    /\ UNCHANGED <<stopClick, effectDeps, statusEffect>>
    /\ UNCHANGED sessionRow
    /\ UNCHANGED <<captureVars, startVars>>
    /\ PageFrame

\* `await updateSession({...session, status: 'recording'})` (lines 138-143):
\* the PUT reaches the server or fails, updateSession returns either way.
RecordingStatusSettles(outcome) ==
    /\ modeSelect = "updateSession"
    /\ sessionRow' = IF outcome = "ok"
                     THEN PutSession(sessionRow, CreatedSession, "recording",
                                     CreatedSession.duration)
                     ELSE sessionRow
    /\ modeSelect' = "startRecording"
    /\ UNCHANGED <<currentSessionId, isStarting, stopClick, effectDeps, statusEffect>>
    /\ UNCHANGED <<captureVars, startVars>>
    /\ PageFrame

\* Line 171: setCurrentSessionId(null).
SessionAfterFailure(sessionId) == "null"

\* `await startRecording(mode, session.id)` (lines 147-175): the hook's
\* start(), then the rest of the try or the catch, and the finally.
StartRecordingSettles(mode, mic, media) ==
    /\ modeSelect = "startRecording"
    /\ HookStartRuns(mode, currentSessionId, "audioOnly", mic, media)
    /\ IF lastStart'.outcome = "resolved"
       THEN /\ modeSelect' = "started"
            /\ UNCHANGED currentSessionId
       ELSE /\ modeSelect' = "failed"
            /\ currentSessionId' = SessionAfterFailure(currentSessionId)
    /\ isStarting' = FALSE
    /\ UNCHANGED <<stopClick, effectDeps, statusEffect>>
    /\ UNCHANGED sessionRow
    /\ PageFrame

\* Line 59: !isRecording && currentSessionId && deviceId (the device id is
\* there since handleModeSelect went on, line 115).
EffectActs(isRecording, sessionId) == ~isRecording /\ sessionId # "null"

\* A render after isRecording or currentSessionId changed: the status effect
\* (lines 58-92) runs and, when the recording is not on and there is a
\* session, calls updateSessionStatus up to its `await fetch(...)`.
StatusEffectRuns(e) ==
    /\ effectDeps # <<state.isRecording, currentSessionId>>
    /\ effectDeps' = <<state.isRecording, currentSessionId>>
    /\ IF EffectActs(state.isRecording, currentSessionId)
       THEN /\ statusEffect[e].pc = "idle"
            /\ \A d \in EffectRuns : d < e => statusEffect[d].pc # "idle"
            /\ statusEffect' = [statusEffect EXCEPT ![e].pc = "fetch"]
       ELSE /\ e = 1
            /\ UNCHANGED statusEffect
    /\ UNCHANGED <<currentSessionId, isStarting, modeSelect, stopClick>>
    /\ UNCHANGED sessionRow
    /\ UNCHANGED <<captureVars, startVars>>
    /\ PageFrame

\* The GET of lines 64-69 answers: the session as the server has it; the
\* run goes on to the update when its status is 'recording' (line 71).
StatusEffectFetches(e) ==
    /\ statusEffect[e].pc = "fetch"
    /\ statusEffect' = [statusEffect EXCEPT
                           ![e].pc = IF sessionRow.status = "recording"
                                     THEN "update" ELSE "done",
                           ![e].session = sessionRow]
    /\ UNCHANGED <<currentSessionId, isStarting, modeSelect, stopClick, effectDeps>>
    /\ UNCHANGED sessionRow
    /\ UNCHANGED <<captureVars, startVars>>
    /\ PageFrame

\* `await updateSession({...session, status: 'completed', duration})` of the
\* effect (lines 73-77) reaches the server; the session object is the one
\* fetched with status 'recording'.
StatusEffectUpdates(e) ==
    /\ statusEffect[e].pc = "update"
    /\ sessionRow' = PutSession(sessionRow, statusEffect[e].session, "completed",
                                DurationSeconds)
    /\ statusEffect' = [statusEffect EXCEPT ![e].pc = "done"]
    /\ UNCHANGED <<currentSessionId, isStarting, modeSelect, stopClick, effectDeps>>
    /\ UNCHANGED <<captureVars, startVars>>
    /\ PageFrame

\* handleStop up to `await stopRecording()` (lines 192-197), with the hook's
\* stop() up to its await of the recorder.
StopClicked ==
    /\ stopClick.pc = "idle"
    /\ currentSessionId # "null"
    /\ state.isRecording
    /\ hookStop = "idle"
    /\ recorderRef
    /\ RecorderStopBegin(1)
    /\ hookStop' = "awaitRecorder"
    /\ stopClick' = [stopClick EXCEPT !.pc = "stopRecording"]
    /\ UNCHANGED <<sessionIdRef, recorderRef, pendingChunksRef, recordingState, idbQueue>>
    /\ UNCHANGED taskVars
    /\ UNCHANGED <<currentSessionId, isStarting, modeSelect, effectDeps, statusEffect>>
    /\ UNCHANGED sessionRow
    /\ UNCHANGED startVars
    /\ PageFrame

\* stopRecording() has returned; the GET of lines 203-208 answers.
StopFetches ==
    /\ stopClick.pc = "stopRecording"
    /\ hookStop = "returned"
    /\ stopClick' = [pc |-> "update", session |-> sessionRow]
    /\ UNCHANGED <<currentSessionId, isStarting, modeSelect, effectDeps, statusEffect>>
    /\ UNCHANGED sessionRow
    /\ UNCHANGED <<captureVars, startVars>>
    /\ PageFrame

\* `await updateSession({...session, status: 'completed', duration})` of
\* handleStop (lines 210-216), then setCurrentSessionId(null) (line 227).
StopUpdates ==
    /\ stopClick.pc = "update"
    /\ sessionRow' = PutSession(sessionRow, stopClick.session, "completed", DurationSeconds)
    /\ stopClick' = [stopClick EXCEPT !.pc = "done"]
    /\ currentSessionId' = "null"
    /\ UNCHANGED <<isStarting, modeSelect, effectDeps, statusEffect>>
    /\ UNCHANGED <<captureVars, startVars>>
    /\ PageFrame

\* One session of the page: handleModeSelect, the recording, handleStop, and
\* the status effect beside them.
NextPage ==
    \/ ModeSelectBegins
    \/ \E outcome \in {"ok", "failed"} : CreateSessionSettles(outcome)
    \/ \E outcome \in {"ok", "failed"} : RecordingStatusSettles(outcome)
    \/ \E mic \in {"ok", "denied"}, media \in MediaOutcomes :
          StartRecordingSettles("mic", mic, media)
    \/ \E e \in EffectRuns : StatusEffectRuns(e)
    \/ \E e \in EffectRuns : StatusEffectFetches(e)
    \/ \E e \in EffectRuns : StatusEffectUpdates(e)
    \/ StopClicked
    \/ StopFetches
    \/ StopUpdates
    \/ Tick
    \/ DeliverData
    \/ DeliverStop
    \/ FinalChunkTimeout(1)
    \/ StopContinue(1)
    \/ HookStopSettled
    \/ HookStopPolls
    \/ HookStopWaited
    \/ HookStopReturn
    \/ \E index \in TaskIndices : HandleChunkDone(index)
    \/ IdbPut
    \/ IdbDelete

(***************************************************************************)
(* useAudioRecorder: a session after an earlier one of the same hook       *)
(***************************************************************************)

\* The handleChunk call of chunk `index` of the earlier session resumes from
\* its `await fetch(...)` (lines 103-135) and runs its finally (lines
\* 136-139): pendingChunksRef is the one ref of the hook, its entries are
\* indices.
LeftOverSettles(index, outcome) ==
    /\ index \in leftOver
    /\ leftOver' = leftOver \ {index}
    /\ toasts' = toasts \cup UploadToasts(index, outcome)
    /\ pendingChunksRef' = pendingChunksRef \ {index}
    /\ UNCHANGED <<chunkTask, chunkStore, waited>>
    /\ UNCHANGED <<browserVars, recorderVars>>
    /\ UNCHANGED <<sessionIdRef, recorderRef, hookStop, recordingState, idbQueue>>
    /\ UNCHANGED serverVars
    /\ UNCHANGED playVars
    /\ UNCHANGED sessionVars
    /\ UNCHANGED startVars
    /\ UNCHANGED storeVars
    /\ UNCHANGED pageVars

\* A recording of the hook from start() to the return of stop(), with the
\* handleChunk call of every chunk and those left over.
NextRestart ==
    \/ HookStart("mic")
    \/ Tick
    \/ Timeslice
    \/ DeliverData
    \/ DeliverStop
    \/ HookStop
    \/ FinalChunkTimeout(1)
    \/ StopContinue(1)
    \/ HookStopSettled
    \/ HookStopPolls
    \/ HookStopWaited
    \/ HookStopReturn
    \/ IdbPut
    \/ IdbDelete
    \/ \E index \in TaskIndices : StoreChunkSettles(index, "success")
    \/ \E index \in TaskIndices : UploadSettles(index, "ok")
    \/ \E index \in LeftOverIndices : LeftOverSettles(index, "ok")

(***************************************************************************)
(* lib/indexeddb.ts: the local store                                       *)
(***************************************************************************)
StoreSessions == {"s1", "s2"}
StoreIndices == 0..MaxStoreIndex
StoreBlobs == 1..2      \* two blobs that differ

\* What the browser does to one call: whether indexedDB.open succeeds,
\* whether database.transaction() throws, whether the request succeeds.
OpenOutcomes == {"ok", "error"}
TransactionOutcomes == {"ok", "throws"}
RequestOutcomes == {"success", "error"}

\* How far a call gets: isIndexedDBAvailable(), initDB() (which opens the
\* database unless `db` is set), database.transaction(), the request.
CallOutcome(open, transaction, request) ==
    IF database = "unavailable" THEN "unavailable"
    ELSE IF database = "closed" /\ open = "error" THEN "openFailed"
    ELSE IF transaction = "throws" THEN "transactionThrew"
    ELSE IF request = "error" THEN "requestError"
    ELSE "success"

\* initDB() (lines 39-70) keeps the connection it opened.
DatabaseAfter(outcome) ==
    IF outcome \in {"unavailable", "openFailed"} THEN database ELSE "open"

\* How the promise of a call settles: the early return without IndexedDB,
\* the catch around `await initDB()` and database.transaction(), and the
\* onerror handler of the request all resolve it with a failure result.
SettledUnlessOpenFails(outcome) ==
    IF outcome = "openFailed" THEN "rejected" ELSE "returned"

Settled(outcome) == "returned"

NoStoreCall ==
    [op |-> "none", sessionId |-> "none", outcome |-> "none", settled |-> "none",
     success |-> FALSE, error |-> FALSE, chunks |-> <<>>, state |-> NoRecord]

\* The result object of a call: success and error, and for the two reads
\* the chunks or the state.
StoreResult(op, sessionId, outcome, foundChunks, foundState) ==
    [op |-> op, sessionId |-> sessionId, outcome |-> outcome,
     settled |-> Settled(outcome),
     success |-> outcome = "success",
     error |-> outcome # "success",
     chunks |-> foundChunks,
     state |-> foundState]

\* store.put(record) on an object store with a key path: the record
\* replaces the one of the same key.
PutRecordAdds(store, record, key) == store \cup {record}

PutRecord(store, record, key) ==
    {r \in store : r[key] # record[key]} \cup {record}

\* The records of the 'sessionId' index for one session.
OfSession(store, sessionId) == {r \in store : r.sessionId = sessionId}

EmptyStores ==
    /\ storedChunks = {}
    /\ storedState = {}
    /\ lastStored = [k \in StoreSessions \X StoreIndices |-> 0]
    /\ storeResult = NoStoreCall

ClosedStore == database = "closed" /\ EmptyStores

\* storeChunk(chunk) (lines 72-110) with the chunk handleChunk builds
\* (useAudioRecorder.ts lines 77-83).
StoreChunk(sessionId, index, blob, open, transaction, request) ==
    LET outcome == CallOutcome(open, transaction, request)
        chunk == [id |-> ChunkId(sessionId, index), sessionId |-> sessionId,
                  chunkIndex |-> index, blob |-> blob]
    IN  /\ database' = DatabaseAfter(outcome)
        /\ storedChunks' = IF outcome = "success"
                           THEN PutRecord(storedChunks, chunk, "id") ELSE storedChunks
        /\ lastStored' = IF outcome = "success"
                         THEN [lastStored EXCEPT ![<<sessionId, index>>] = blob]
                         ELSE lastStored
        /\ storeResult' = StoreResult("storeChunk", sessionId, outcome, <<>>, NoRecord)
        /\ UNCHANGED storedState
        /\ UNCHANGED <<serverVars, captureVars, playVars, sessionVars, startVars, clientVars>>

\* getChunks(sessionId) (lines 115-154).
GetChunksOf(sessionId, open, transaction, request) ==
    LET outcome == CallOutcome(open, transaction, request)
        found == GetChunks(IF outcome = "success" THEN "ok" ELSE "failing",
                           OfSession(storedChunks, sessionId))
    IN  /\ database' = DatabaseAfter(outcome)
        /\ storeResult' = StoreResult("getChunks", sessionId, outcome, found.chunks, NoRecord)
        /\ UNCHANGED <<storedChunks, storedState, lastStored>>
        /\ UNCHANGED <<serverVars, captureVars, playVars, sessionVars, startVars, clientVars>>

\* deleteChunks(sessionId) (lines 159-198): the cursor deletes every record
\* of the session; a failing request aborts the transaction.
DeleteChunks(sessionId, open, transaction, request) ==
    LET outcome == CallOutcome(open, transaction, request)
    IN  /\ database' = DatabaseAfter(outcome)
        /\ storedChunks' = IF outcome = "success"
                           THEN storedChunks \ OfSession(storedChunks, sessionId)
                           ELSE storedChunks
        /\ lastStored' = IF outcome = "success"
                         THEN [k \in DOMAIN lastStored |->
                                  IF k[1] = sessionId THEN 0 ELSE lastStored[k]]
                         ELSE lastStored
        /\ storeResult' = StoreResult("deleteChunks", sessionId, outcome, <<>>, NoRecord)
        /\ UNCHANGED storedState
        /\ UNCHANGED <<serverVars, captureVars, playVars, sessionVars, startVars, clientVars>>

\* saveRecordingState(state) (lines 203-233).
SaveRecordingState(sessionId, isRecording, open, transaction, request) ==
    LET outcome == CallOutcome(open, transaction, request)
        saved == [sessionId |-> sessionId, isRecording |-> isRecording]
    IN  /\ database' = DatabaseAfter(outcome)
        /\ storedState' = IF outcome = "success"
                          THEN PutRecord(storedState, saved, "sessionId") ELSE storedState
        /\ storeResult' = StoreResult("saveRecordingState", sessionId, outcome, <<>>, NoRecord)
        /\ UNCHANGED <<storedChunks, lastStored>>
        /\ UNCHANGED <<serverVars, captureVars, playVars, sessionVars, startVars, clientVars>>

\* getRecordingState(sessionId) (lines 238-270): request.result || null.
GetRecordingState(sessionId, open, transaction, request) ==
    LET outcome == CallOutcome(open, transaction, request)
        held == OfSession(storedState, sessionId)
        found == IF outcome = "success" /\ held # {} THEN CHOOSE r \in held : TRUE
                 ELSE NoRecord
    IN  /\ database' = DatabaseAfter(outcome)
        /\ storeResult' = StoreResult("getRecordingState", sessionId, outcome, <<>>, found)
        /\ UNCHANGED <<storedChunks, storedState, lastStored>>
        /\ UNCHANGED <<serverVars, captureVars, playVars, sessionVars, startVars, clientVars>>

\* deleteRecordingState(sessionId) (lines 275-305).
DeleteRecordingState(sessionId, open, transaction, request) ==
    LET outcome == CallOutcome(open, transaction, request)
    IN  /\ database' = DatabaseAfter(outcome)
        /\ storedState' = IF outcome = "success"
                          THEN storedState \ OfSession(storedState, sessionId)
                          ELSE storedState
        /\ storeResult' = StoreResult("deleteRecordingState", sessionId, outcome, <<>>, NoRecord)
        /\ UNCHANGED <<storedChunks, lastStored>>
        /\ UNCHANGED <<serverVars, captureVars, playVars, sessionVars, startVars, clientVars>>

\* Any calls of the three chunk operations, one after the other, for two
\* sessions.
NextChunkStore ==
    \E sessionId \in StoreSessions, open \in OpenOutcomes,
       transaction \in TransactionOutcomes, request \in RequestOutcomes :
        \/ \E index \in StoreIndices, blob \in StoreBlobs :
              StoreChunk(sessionId, index, blob, open, transaction, request)
        \/ GetChunksOf(sessionId, open, transaction, request)
        \/ DeleteChunks(sessionId, open, transaction, request)

\* Any calls of the six operations, one after the other, for two sessions
\* that record their first chunk.
NextStore ==
    \E sessionId \in StoreSessions, open \in OpenOutcomes,
       transaction \in TransactionOutcomes, request \in RequestOutcomes :
        \/ \E blob \in StoreBlobs :
              StoreChunk(sessionId, 0, blob, open, transaction, request)
        \/ GetChunksOf(sessionId, open, transaction, request)
        \/ DeleteChunks(sessionId, open, transaction, request)
        \/ \E isRecording \in BOOLEAN :
              SaveRecordingState(sessionId, isRecording, open, transaction, request)
        \/ GetRecordingState(sessionId, open, transaction, request)
        \/ DeleteRecordingState(sessionId, open, transaction, request)

\* A browser with or without IndexedDB, nothing stored yet.
InitStore ==
    /\ ServerAt(0) /\ InitCapture /\ NothingRecorded /\ NewSession /\ NotStarted
    /\ ClientIdle
    /\ database \in {"unavailable", "closed"}
    /\ EmptyStores

SpecStore == InitStore /\ [][NextStore]_vars

SpecChunkStore == InitStore /\ [][NextChunkStore]_vars

InitUpload ==
    InitServer /\ InitCapture /\ NothingRecorded /\ NewSession /\ NotStarted /\ ClosedStore
    /\ ClientIdle

SpecUpload == InitUpload /\ [][NextUpload]_vars

\* A recording on a session that has no chunk yet.
InitRecorder ==
    ServerAt(0) /\ InitCapture /\ NothingRecorded /\ NewSession /\ NotStarted /\ ClosedStore
    /\ ClientIdle

SpecRecorder == InitRecorder /\ [][NextRecorder]_vars

SpecRecording == InitRecorder /\ [][NextRecording]_vars

InitPlayback ==
    /\ InitCapture /\ NewSession /\ NotStarted /\ ClosedStore /\ ClientIdle
    /\ \E session \in [PlayIndices -> ChunkKinds] : Recorded(session)

SpecPlayback == InitPlayback /\ [][NextPlayback]_vars

SpecSession == InitUpload /\ [][NextSession]_vars

SpecSegments == InitUpload /\ [][NextSegments]_vars

SpecValidate == InitRecorder /\ [][NextValidate]_vars

SpecPage == InitRecorder /\ [][NextPage]_vars

\* The hook after an earlier session whose stop() gave up its wait (lines
\* 237-258): refs cleared, handleChunk calls of that session still at their
\* fetch.
InitRestart ==
    /\ ServerAt(0) /\ InitCapture /\ NothingRecorded /\ NewSession /\ NotStarted /\ ClosedStore
    /\ PageIdle
    /\ leftOver \in SUBSET LeftOverIndices

SpecRestart == InitRestart /\ [][NextRestart]_vars

SpecChunks == InitRecorder /\ [][NextChunks]_vars

SpecHook == InitRecorder /\ [][NextHook]_vars

SpecStart == InitRecorder /\ [][NextStart]_vars

SpecCapture == InitRecorder /\ [][NextCapture]_vars

(***************************************************************************)
(* Claims about the upload route                                           *)
(***************************************************************************)
StoredIndices(table) == {table[k].chunkIndex : k \in DOMAIN table}

OneRecordPerIndex(table) ==
    \A a, b \in DOMAIN table : a # b => table[a].chunkIndex # table[b].chunkIndex

HoldsUploadOf(table, r) ==
    \E k \in DOMAIN table :
        /\ table[k].chunkIndex = req[r].chunkIndex
        /\ table[k].audioData = req[r].audioData
        /\ table[k].duration = req[r].duration

\* C1: whatever uploads have run, sequentially or overlapping, the table holds
\* at most one row per chunk index of the session; and an upload answered 200
\* for an index that was already stored when it arrived leaves the number of
\* rows unchanged and the row of that index holding its payload and duration.
C1_OneRecordPerIndex ==
    [][ /\ OneRecordPerIndex(audioChunks')
        /\ \A r \in Requests :
             (req[r].status = 0 /\ req'[r].status = 200 /\ req[r].existedAtReceipt)
                => /\ Len(audioChunks') = Len(audioChunks)
                   /\ HoldsUploadOf(audioChunks', r) ]_vars

C1_Witness ==
    \E r \in Requests :
        /\ req[r].status = 200
        /\ req[r].existedAtReceipt
        /\ HoldsUploadOf(audioChunks, r)
        /\ \E q \in Requests \ {r} : req[q].chunkIndex = req[r].chunkIndex /\ req[q].isNewChunk

AllAnswered == \A r \in Requests : req[r].pc = "done"

CreatedBy(r) == req[r].status = 0 /\ req'[r].status = 200 /\ req'[r].isNewChunk

\* C2: chunksCount grows by exactly one in the step that answers 200 to an
\* upload that created its row and in no other step (an overwrite answered 200
\* adds nothing); once every request is answered chunksCount equals the number
\* of rows, and if the session was empty and all of them uploaded index 0 there
\* is exactly one row, for index 0, and chunksCount is 1.
C2_CountOncePerNewChunk ==
    [][ /\ chunksCount' = chunksCount + Cardinality({r \in Requests : CreatedBy(r)})
        /\ Cardinality({r \in Requests : CreatedBy(r)}) <= 1
        /\ AllAnswered' => chunksCount' = Len(audioChunks')
        /\ (AllAnswered' /\ \A r \in Requests :
                               req'[r].chunkIndex = 0 /\ req'[r].existingChunks = <<>>)
              => /\ Len(audioChunks') = 1
                 /\ audioChunks'[1].chunkIndex = 0
                 /\ chunksCount' = 1 ]_vars

\* every request uploaded index 0 and two of them overlapped: one lost the race
C2_Witness ==
    /\ AllAnswered
    /\ \A r \in Requests : req[r].chunkIndex = 0
    /\ \E r \in Requests : req[r].status = 500
    /\ chunksCount = 1

Validated(r) == req[r].pc = "idle" /\ req'[r].pc # "idle"

RejectedUntouched(r) ==
    /\ req'[r].pc = "done"
    /\ req'[r].status = 400
    /\ audioChunks' = audioChunks
    /\ chunksCount' = chunksCount

C4_WindowFirstChunk ==
    [][ \A r \in Requests :
          (Validated(r) /\ Len(audioChunks) = 0)
             => LET i == req'[r].chunkIndex
                IN  /\ i \in 0..5 => req'[r].pc = "findUnique" /\ req'[r].status = 0
                    /\ i > 5 => RejectedUntouched(r) ]_vars

\* with no chunk stored, one upload above 5 was rejected and one of 1..5 stored
C4_Witness ==
    \E r, q \in Requests :
        /\ req[r].status = 400
        /\ req[r].existingChunks = <<>>
        /\ req[r].chunkIndex > 5
        /\ req[q].status = 200
        /\ req[q].existingChunks = <<>>
        /\ req[q].chunkIndex \in 1..5
        /\ req[q].chunkIndex \in StoredIndices(audioChunks)

(***************************************************************************)
(* Claims about the recorder and the recording hook                        *)
(***************************************************************************)
StopCallsMade == {k \in StopCalls : stopCall[k].pc # "idle"}

\* C5: in a recording from start() to one stop(), whatever the order of
\* timeslice blobs, empty blobs, pause, resume and the flush of stop(), the
\* indices handed to onChunk are 0, 1, 2, ... in the order of the calls,
\* without gap or repeat, and state.chunkCount is the number of calls so far.
C5_IndicesInOrder ==
    /\ \A j \in DOMAIN emitted : emitted[j] = j - 1
    /\ state.chunkCount = Len(emitted)

\* a timeslice chunk and then the chunks of stop(), on a recording whose
\* stop() has resolved
C5_Witness ==
    /\ emitted = <<0, 1, 2>>
    /\ stopCall[1].outcome = "resolved"
    /\ state.chunkCount = 3

\* C6: once stop() is called on a recording that holds audio, the chunks
\* handed to onChunk never outnumber those due at the call (the ones already
\* handed over, the blobs cut and waiting, and one for the audio in progress):
\* the flush adds one final chunk and nothing comes after it.
C6_OneFinalChunk ==
    expectedAtStop > 0 => Len(emitted) <= expectedAtStop

\* Nothing of the recorder is left to run: every event is dispatched, every
\* timer has fired, no stop() is ready to continue and no timeslice is due.
RecorderIdle ==
    /\ eventQueue = <<>>
    /\ \A k \in StopCalls : ~stopCall[k].timer
    /\ \A k \in StopCalls :
          ~(stopCall[k].pc = "awaitFinal" /\ stopCall[k].finalChunk # "pending")
    /\ ~(mrState = "recording" /\ buffered = ChunkTicks)

\* C7: every stop() call that was made has resolved or rejected by the time
\* the recorder has nothing left to run, whether or not another stop() call
\* was in progress.
C7_EveryStopSettles ==
    RecorderIdle => \A k \in StopCallsMade : stopCall[k].outcome # "pending"

\* C8: once a stop() call that went through the stopping of the recorder has
\* resolved or rejected, no acquired track (microphone, display, mixed
\* output) is live, in either mode.
C8_TracksReleased ==
    \A k \in StopCalls :
        (stopCall[k].outcome # "pending" /\ stopCall[k].finalChunk # "pending")
            => \A t \in DOMAIN tracks : tracks[t] # "live"

\* C9: the duration reported with a chunk is the unpaused time since the
\* previous onChunk call (or since start), the final chunk of a stop() made
\* while paused included; stated for the chunks handed over before the
\* MediaRecorder is stopped.
C9_DurationIsUnpausedTime ==
    (Len(emitted) > 0 /\ mrState # "inactive")
        => lastChunk.duration = lastChunk.unpaused

\* C10: once the hook's stop() has returned and the store has run every
\* request started before, it holds no record of the session.
C10_NoStateAfterStop ==
    (hookStop = "returned" /\ idbQueue = <<>>) => recordingState = NoRecord

(***************************************************************************)
(* Claims about handleChunk                                                *)
(***************************************************************************)
UploadDispatched(index) == chunkTask[index].pc \in {"uploading", "done"}

UploadFailed(index) == chunkTask[index].upload \in {"error", "throw"}

\* C11: the upload of every chunk handed to handleChunk is dispatched without
\* waiting for the local store write: no chunk that was handed over is left
\* with its fetch not started while storeChunk is still running.
C11_UploadDoesNotWait ==
    \A index \in TaskIndices :
        chunkTask[index].pc # "none" => UploadDispatched(index)

\* C12: the step in which the upload of chunk i fails (error response or
\* thrown error) shows an error toast for i and changes nothing of the
\* recorder, the MediaRecorder or the other chunks' calls; and every chunk
\* emitted, after a failure too, carries the next index and starts its own
\* handleChunk call under that index.
C12_UploadFailureKeepsRecording ==
    [][ /\ \A i \in TaskIndices :
             (chunkTask[i].pc = "uploading" /\ UploadFailed(i)')
                => /\ recorderVars' = recorderVars
                   /\ browserVars' = browserVars
                   /\ \E t \in toasts' \ toasts :
                         t[2] = i /\ t[1] \in {"upload failed", "error processing"}
                   /\ \A j \in TaskIndices \ {i} : chunkTask'[j] = chunkTask[j]
        /\ Len(emitted') = Len(emitted) + 1
              => /\ emitted'[Len(emitted')] = Len(emitted)
                 /\ chunkTask'[Len(emitted)].pc = "storing" ]_vars

\* the upload of chunk 0 failed, the recorder went on recording and chunk 1
\* was emitted and uploaded
C12_Witness ==
    /\ chunkTask[0].upload = "error"
    /\ chunkTask[1].upload = "ok"
    /\ emitted = <<0, 1>>
    /\ state.isRecording
    /\ mrState = "recording"

RowsBefore ==
    Cardinality({k \in DOMAIN audioChunks : audioChunks[k].audioData = Base64Data(0)})

Arrived == {r \in Requests : req[r].pc # "idle"}

\* C14: when the uploads that reached the server are of pairwise different
\* chunks, each among the next six indices after the rows the session had,
\* none of them is refused, whatever the order they arrived in, and each one
\* that was answered is stored.
C14_InFlightAllAccepted ==
    ( /\ \A r \in Arrived : req[r].chunkIndex \in RowsBefore..(RowsBefore + 5)
      /\ \A r, q \in Arrived : r # q => req[r].chunkIndex # req[q].chunkIndex )
        => \A r \in Arrived :
              /\ req[r].status \in {0, 200}
              /\ req[r].status = 200 => HoldsUploadOf(audioChunks, r)

(***************************************************************************)
(* Claims about the end of the hook's stop()                               *)
(***************************************************************************)
DeleteQueued == \E k \in DOMAIN idbQueue : idbQueue[k].op = "delete"

\* C15: after recorder.stop() resolved, the wait for pending chunks is
\* bounded: the loop sleeps at most MaxPolls times and can always either
\* sleep once more or end, whatever is still pending; having ended it has
\* queued the delete of the persisted state, and when stop() has returned the
\* delete has run and the session reference and the pending set are cleared.
C15_StopWaitIsBounded ==
    /\ waited <= MaxPolls
    /\ hookStop = "waiting" => ENABLED (HookStopPolls \/ HookStopWaited)
    /\ hookStop = "deleting" => DeleteQueued
    /\ (hookStop = "returned" /\ stopCall[1].outcome = "resolved")
          => /\ sessionIdRef = "null"
             /\ pendingChunksRef = {}
             /\ ~recorderRef
             /\ ~DeleteQueued

\* stop() returned after the wait loop ran to its limit
C15_Witness ==
    /\ hookStop = "returned"
    /\ stopCall[1].outcome = "resolved"
    /\ waited = MaxPolls
    /\ sessionIdRef = "null"
    /\ recordingState = NoRecord

(***************************************************************************)
(* Claims about reassembly                                                 *)
(***************************************************************************)
Played == lastCall.op = "playback" /\ lastCall.result.error = "none"

PlayedFrom == IF LocalUsed(GetChunks(lastCall.db, localChunks)) THEN "local" ELSE "server"

\* The indices of the chunks the played store holds with bytes and a positive
\* measured duration.
ValidIndices ==
    IF PlayedFrom = "local"
    THEN {c.chunkIndex : c \in {d \in localChunks : Len(d.blob) > 0 /\ measured[d.chunkIndex] > 0}}
    ELSE {row.chunkIndex : row \in {r \in Range(audioChunks) :
                                       Len(r.audioData) > 0 /\ r.duration > 0}}

AllValid ==
    IF PlayedFrom = "local"
    THEN ValidIndices = {c.chunkIndex : c \in localChunks}
    ELSE ValidIndices = {row.chunkIndex : row \in Range(audioChunks)}

InIndexOrder(indices) ==
    SortedByIndex(indices, [i \in indices |-> i])

\* C16: when every chunk of the store that is played is valid, the result has
\* them in ascending index order, totalDuration is the sum of their measured
\* durations, and the combined blob is their bytes concatenated in that
\* order (its length the sum of their lengths), from the local store as from
\* the server.
C16_ReassemblySums ==
    (Played /\ AllValid)
        => LET order == InIndexOrder(ValidIndices)
               result == lastCall.result
           IN  /\ [k \in DOMAIN result.chunks |-> result.chunks[k].index] = order
               /\ result.totalDuration = SumOf([k \in DOMAIN order |-> measured[order[k]]])
               /\ result.combined = Concat([k \in DOMAIN order |-> BlobOf(order[k])])
               /\ Len(result.combined) = SumOf([k \in DOMAIN order |-> Len(BlobOf(order[k]))])

Reassembled(result) == <<result.chunks, result.combined, result.totalDuration>>

\* The same call with the local store, or the table, changed.
ReplayedWith(store, table) ==
    Reassembled(GetChunksForPlayback(lastCall.db, store, lastCall.fetch, table))

HeldIndices ==
    {c.chunkIndex : c \in localChunks} \cup {row.chunkIndex : row \in Range(audioChunks)}

ServerRow(index, bytes, duration) ==
    [id |-> ChunkId(SessionId, index), chunkIndex |-> index,
     audioData |-> Base64Encode(bytes), duration |-> duration]

\* The chunks a store may gain or lose under the claim: without bytes, or
\* with a duration that is not positive.
ExcludedLocal ==
    {c \in localChunks : Len(c.blob) = 0 \/ measured[c.chunkIndex] <= 0}
        \cup {[chunkIndex |-> i, blob |-> <<>>] : i \in PlayIndices \ HeldIndices}

ExcludedLocalNoDuration ==
    {[chunkIndex |-> i, blob |-> BlobOf(i)] : i \in PlayIndices \ HeldIndices}

ExcludedRows ==
    {row \in Range(audioChunks) : Len(row.audioData) = 0 \/ row.duration <= 0}
        \cup {ServerRow(i, <<>>, 5) : i \in PlayIndices \ HeldIndices}
        \cup {ServerRow(i, BlobOf(i), 0) : i \in PlayIndices \ HeldIndices}

WithOrWithout(S, c) == IF c \in S THEN S \ {c} ELSE S \cup {c}

TableWithOrWithout(table, row) ==
    IF row \in Range(table)
    THEN SelectSeq(table, LAMBDA other : other # row)
    ELSE Append(table, row)

\* C17 as claimed: a playback call returns the same chunk list, combined
\* bytes and totalDuration when a chunk without bytes, or with a duration
\* that is not positive, is added to or removed from the local store or the
\* server's rows.
C17_ExcludedChunksIgnored ==
    lastCall.op = "playback"
        => /\ \A c \in ExcludedLocal \cup ExcludedLocalNoDuration :
                 ReplayedWith(WithOrWithout(localChunks, c), audioChunks)
                     = Reassembled(lastCall.result)
           /\ \A row \in ExcludedRows :
                 ReplayedWith(localChunks, TableWithOrWithout(audioChunks, row))
                     = Reassembled(lastCall.result)

\* C17 as amended: a playback call returns the same chunk list, combined
\* bytes and totalDuration when a chunk without bytes is added to or removed
\* from the local store, and when a row without bytes or with a duration
\* that is not positive is added to or removed from the server's rows.
C17_EmptyAndServerZeroDurationIgnored ==
    lastCall.op = "playback"
        => /\ \A c \in {d \in ExcludedLocal : Len(d.blob) = 0} :
                 ReplayedWith(WithOrWithout(localChunks, c), audioChunks)
                     = Reassembled(lastCall.result)
           /\ \A row \in ExcludedRows :
                 ReplayedWith(localChunks, TableWithOrWithout(audioChunks, row))
                     = Reassembled(lastCall.result)

\* a playback from the server's rows, one of them kept and one of them with
\* bytes and duration 0
C17_Witness ==
    /\ Played
    /\ PlayedFrom = "server"
    /\ Len(lastCall.result.chunks) > 0
    /\ \E row \in Range(audioChunks) : Len(row.audioData) > 0 /\ row.duration = 0
    /\ \E c \in localChunks : Len(c.blob) = 0

LocalWithBytes == {c \in localChunks : Len(c.blob) > 0}

\* C18: a playback call is answered from the local store when IndexedDB
\* works and one local chunk has bytes - the local chunks with bytes, in
\* index order, whatever the fetch would do; otherwise, the local store being
\* empty, holding empty blobs only, missing or failing, it is answered with
\* what the server's rows give, and without error when the fetch succeeds
\* and the session has rows.
C18_LocalFirstThenServer ==
    lastCall.op = "playback"
        => LET result == lastCall.result
               order == InIndexOrder({c.chunkIndex : c \in LocalWithBytes})
           IN  IF lastCall.db = "ok" /\ LocalWithBytes # {}
               THEN /\ result.error = "none"
                    /\ [k \in DOMAIN result.chunks |-> result.chunks[k].index] = order
                    /\ \A k \in DOMAIN result.chunks :
                          [chunkIndex |-> result.chunks[k].index,
                           blob |-> result.chunks[k].blob] \in LocalWithBytes
               ELSE /\ result = ServerPlayback(lastCall.fetch, audioChunks)
                    /\ (lastCall.fetch = "ok" /\ Len(audioChunks) > 0)
                          => result.error = "none"

\* a local store that fails, or holds empty blobs only, was passed over and
\* the chunks came from the server
C18_Witness ==
    /\ lastCall.op = "playback"
    /\ lastCall.db \in {"failing", "ok"}
    /\ localChunks # {}
    /\ LocalWithBytes = {}
    /\ lastCall.result.error = "none"
    /\ Len(lastCall.result.chunks) > 1

\* The indices the played store holds, in the order validateChunkSequence
\* is given them.
PlayedIndices ==
    IF PlayedFrom = "local"
    THEN InIndexOrder({c.chunkIndex : c \in localChunks})
    ELSE [k \in DOMAIN audioChunks |-> audioChunks[k].chunkIndex]

\* C19: a playback of stored chunks whose indices have a gap succeeds with
\* the chunks it keeps in ascending index order, and its result carries the
\* list of the skipped indices, the gaps of validateChunkSequence: [2] for
\* stored indices [0, 1, 3].
C19_GapsReported ==
    (Played /\ AllValid /\ ValidateChunkSequence(PlayedIndices).gaps # <<>>)
        => LET result == lastCall.result
           IN  /\ [k \in DOMAIN result.chunks |-> result.chunks[k].index]
                     = InIndexOrder(Range(PlayedIndices))
               /\ "gaps" \in DOMAIN result
               /\ result.gaps = ValidateChunkSequence(PlayedIndices).gaps

\* The server chunks playback keeps, decoded and concatenated.
PlayableAudio ==
    LET playable == ServerPlayable(FindManyAsc(audioChunks))
    IN  Concat([k \in DOMAIN playable |-> playable[k].blob])

\* C20: the audio the transcribe route, and the transcribe-session script,
\* combine is the bytes of exactly the server chunks playback keeps - with
\* bytes and a positive duration - in ascending index order.
C20_TranscriptionInputIsPlayable ==
    (lastCall.op \in {"transcribe", "script"} /\ lastCall.result.status = 0)
        => lastCall.result.combinedAudio = PlayableAudio

(***************************************************************************)
(* Claims about the session row                                            *)
(***************************************************************************)
\* Request q is a transcription that got `text` from the speech-to-text
\* service.
Transcribed(q) ==
    /\ sessionReq[q].pc = "done"
    /\ "deepgram" \in DOMAIN sessionReq[q].body
    /\ sessionReq[q].answer.status # 404

\* C21: the step in which a transcription gets an empty (or blank)
\* transcript from the speech-to-text service answers 200 with the
\* transcript '' and leaves the session row, chunksCount, the chunk rows and
\* their transcripts as they were.
C21_EmptyTranscriptIsSuccess ==
    [][ \A q \in SessionRequests :
          ( /\ sessionReq[q].pc = "idle"
            /\ Transcribed(q)'
            /\ Len(Trim(sessionReq'[q].body.deepgram)) = 0 )
              => /\ sessionReq'[q].answer = Answer(200, <<>>)
                 /\ sessionRow' = sessionRow
                 /\ chunksCount' = chunksCount
                 /\ audioChunks' = audioChunks
                 /\ chunkTranscript' = chunkTranscript ]_vars

\* a session that had got a transcript, and status 'processing' with it,
\* got a blank transcript from the service and kept both
C21_Witness ==
    \E q \in SessionRequests :
        /\ Transcribed(q)
        /\ sessionReq[q].body.deepgram = <<" ">>
        /\ sessionReq[q].answer = Answer(200, <<>>)
        /\ sessionRow.status = "processing"
        /\ sessionRow.transcript = <<"a">>
        /\ Len(audioChunks) > 0

\* C26: no step of an upload, a session update, a chunk transcript update,
\* a transcription or a summary lowers chunksCount.
C26_ChunksCountNeverDecreases == [][chunksCount' >= chunksCount]_vars

\* a chunk was counted and a session update whose body names chunksCount: 0
\* was carried out
C26_Witness ==
    /\ chunksCount > 0
    /\ req[1].status = 200
    /\ \E q \in SessionRequests :
          /\ sessionReq[q].pc = "done"
          /\ "chunksCount" \in DOMAIN sessionReq[q].body
          /\ sessionReq[q].answer = 200

\* C27: recordingStartedAt is set in the step of the first update that
\* makes the status 'recording', and once set no step changes it, however
\* the later updates follow or overlap each other.
C27_StartedAtSetOnce ==
    [][ /\ sessionRow.recordingStartedAt # NoDate
            => sessionRow'.recordingStartedAt = sessionRow.recordingStartedAt
        /\ (sessionRow.recordingStartedAt = NoDate /\ sessionRow'.status = "recording"
              /\ sessionRow.status # "recording")
            => sessionRow'.recordingStartedAt # NoDate ]_vars

(***************************************************************************)
(* Claims about start(), pause() and resume()                              *)
(***************************************************************************)
NoTrackLive == \A t \in DOMAIN tracks : tracks[t] # "live"

BothSourcesDelivered(call) ==
    call.display \in {"audioOnly", "withVideo"} /\ call.mic = "ok"

SourceFailed(call) ==
    call.display \in {"denied", "noAudio"} \/ call.mic \in {"denied", "empty"}

\* C22: a start() in 'system' mode is resolved only if the display capture
\* and the microphone both delivered an audio track; when either is denied
\* or has no audio track the call is rejected, nothing is recorded (no
\* MediaRecorder, no stream, isRecording false, no chunk) and no track the
\* call acquired is left live.
C22_SystemNeedsBothSources ==
    (lastStart.mode = "system" /\ lastStart.sessionId = SessionId)
        => /\ lastStart.outcome = "resolved" => BothSourcesDelivered(lastStart)
           /\ ~BothSourcesDelivered(lastStart)
                 => /\ lastStart.outcome = "rejected"
                    /\ ~mediaRecorder
                    /\ mrState = "inactive"
                    /\ audioStream = {}
                    /\ ~state.isRecording
                    /\ emitted = <<>>
                    /\ NoTrackLive

\* The display capture came with a video track and an audio track, the
\* microphone was denied: both display tracks are stopped.
C22_Witness ==
    /\ lastStart.mode = "system"
    /\ lastStart.display = "withVideo"
    /\ lastStart.mic = "denied"
    /\ lastStart.outcome = "rejected"
    /\ tracks["display"] = "ended"
    /\ tracks["video"] = "ended"
    /\ tracks["mic"] = "none"

\* C23: after a start() whose source acquisition failed, options.onError has
\* been called, isRecording is false and the recorder has emitted no chunk.
C23_AcquisitionFailureReported ==
    (lastStart.outcome = "rejected" /\ SourceFailed(lastStart))
        => /\ onErrorCalls > 0
           /\ ~state.isRecording
           /\ emitted = <<>>

\* idle, recording, paused or stopped, from the recorder's state and whether
\* a start() has succeeded.
Capture ==
    IF state.isRecording
    THEN IF state.isPaused THEN "paused" ELSE "recording"
    ELSE IF lastStart.outcome = "resolved" THEN "stopped" ELSE "idle"

CaptureMoves ==
    {<<"idle", "recording">>, <<"recording", "paused">>, <<"paused", "recording">>,
     <<"recording", "stopped">>, <<"paused", "stopped">>}

\* C25: the capture state changes only along idle -> recording <-> paused ->
\* stopped (recording -> stopped included); a start() with an empty, 'null'
\* or 'undefined' session id is rejected and leaves the capture state, the
\* recorder and the tracks as they were; isPaused becomes true only from
\* recording and false only from paused; once stopped, the capture state,
\* isPaused and the MediaRecorder's state stay as they are.
C25_CaptureStateMoves ==
    [][ /\ Capture' # Capture => <<Capture, Capture'>> \in CaptureMoves
        /\ (lastStart' # lastStart /\ lastStart'.sessionId \in {"", "null", "undefined"})
              => /\ lastStart'.outcome = "rejected"
                 /\ UNCHANGED <<state, mediaRecorder, mrState, tracks, audioStream, emitted>>
        /\ (~state.isPaused /\ state'.isPaused) => Capture = "recording"
        /\ (state.isPaused /\ ~state'.isPaused) => Capture = "paused"
        /\ Capture = "stopped" => UNCHANGED <<state.isPaused, state.isRecording, mrState>>
      ]_vars

\* Stopped while paused, the recorder cleaned up: resume() finds no
\* MediaRecorder.
C25_Witness ==
    /\ Capture = "stopped"
    /\ state.isPaused
    /\ ~mediaRecorder
    /\ recorderRef

\* C28: a pause() or resume() leaves the chunks emitted, the chunk index,
\* the queued blobs, the audio gathered for the chunk in progress and the
\* handleChunk calls as they were; and every chunk emitted before stop()
\* carries the pending index and a whole timeslice of audio, whatever pauses
\* fell into it.
C28_PauseKeepsChunk ==
    [][ /\ state'.isPaused # state.isPaused
              => UNCHANGED <<emitted, chunkIndex, eventQueue, buffered, chunkTask>>
        /\ (Len(emitted') > Len(emitted) /\ ~isStopping)
              => /\ emitted' = Append(emitted, chunkIndex)
                 /\ Head(eventQueue).size = ChunkTicks
      ]_vars

\* The first chunk, emitted one tick after a resume: its measured duration
\* is that tick, its audio is the whole timeslice.
C28_Witness ==
    /\ emitted = <<0>>
    /\ ~isStopping
    /\ lastChunk.duration < ChunkTicks
    /\ lastChunk.unpaused = ChunkTicks

(***************************************************************************)
(* Claims about the index validation of the upload route                   *)
(***************************************************************************)

\* The index the route expects of a request: 0 for a session without chunks,
\* one more than the last index otherwise.
ExpectedIndex(existingChunks) ==
    IF Len(existingChunks) = 0 THEN 0 ELSE existingChunks[1] + 1

\* C29: an upload answered 200 whose index is not the expected one has made
\* the route write a warning or a note about the index to its log, and one
\* with the expected index has made it write nothing.
C29_UnexpectedIndexWarned ==
    \A r \in Requests :
        req[r].status = 200
            => IF req[r].chunkIndex = ExpectedIndex(req[r].existingChunks)
               THEN req[r].logged = "none"
               ELSE req[r].logged # "none"

(***************************************************************************)
(* Claims about the local store                                            *)
(***************************************************************************)

\* The chunks last stored for a session and not deleted since, from index i
\* upwards.
RECURSIVE StoredFrom(_, _)
StoredFrom(sessionId, i) ==
    IF i \notin StoreIndices THEN <<>>
    ELSE (IF lastStored[<<sessionId, i>>] = 0 THEN <<>>
          ELSE <<[id |-> ChunkId(sessionId, i), sessionId |-> sessionId,
                  chunkIndex |-> i, blob |-> lastStored[<<sessionId, i>>]]>>)
         \o StoredFrom(sessionId, i + 1)

\* C24: whatever storeChunk and deleteChunks calls came before, succeeding
\* or failing, a getChunks(s) that reports no error returns, in ascending
\* index order, exactly the chunk last stored with success for each index of
\* s and not deleted with success since; and a call for one session leaves
\* the stored chunks of every other session as they were.
C24_GetChunksIsLastStored ==
    [][ /\ (storeResult'.op = "getChunks" /\ ~storeResult'.error)
              => storeResult'.chunks = StoredFrom(storeResult'.sessionId, 0)
        /\ \A s \in StoreSessions :
              s # storeResult'.sessionId
                  => OfSession(storedChunks', s) = OfSession(storedChunks, s)
      ]_vars

\* Session s1 has its index 0 stored twice and its index 1 once, session s2
\* has a chunk too, and getChunks('s1') returns the two chunks of s1.
C24_Witness ==
    /\ storeResult.op = "getChunks"
    /\ storeResult.sessionId = "s1"
    /\ ~storeResult.error
    /\ Len(storeResult.chunks) = 2
    /\ storeResult.chunks[1].blob = 2
    /\ lastStored[<<"s2", 0>>] # 0

C31_CountIsRecords ==
    (\A r \in Requests : req[r].pc \in {"idle", "done"}) => chunksCount = Len(audioChunks)

\* C38: every chunk record of the session has an index of 0 or more: an
\* upload with a negative index is never stored.
C38_StoredIndexNotNegative ==
    \A k \in DOMAIN audioChunks : audioChunks[k].chunkIndex >= 0

\* C39: validateChunkSequence reports isValid only when the indices given are
\* 0, 1, ..., n-1, each once.
C39_ValidIsZeroToLast ==
    (lastCall.op = "validateIndices" /\ lastCall.result.isValid)
        => /\ Range(lastCall.given) = 0..(Len(lastCall.given) - 1)
           /\ Cardinality(Range(lastCall.given)) = Len(lastCall.given)

\* C32: the upload of a chunk the session does not hold yet is not refused
\* for its index being below the highest index stored, however far below.
C32_RetryBelowLastAccepted ==
    \A r \in Requests :
        ( /\ req[r].pc # "idle"
          /\ ~req[r].existedAtReceipt
          /\ Len(req[r].existingChunks) > 0
          /\ req[r].chunkIndex >= 0
          /\ req[r].chunkIndex < req[r].existingChunks[1] )
            => req[r].status # 400

\* C33: a playback that succeeds has every chunk the server holds for the
\* session with audio and a positive duration, whatever part of the session
\* the local store holds.
C33_ServerChunksPlayed ==
    Played
        => \A row \in Range(audioChunks) :
              (Len(row.audioData) > 0 /\ row.duration > 0)
                  => \E k \in DOMAIN lastCall.result.chunks :
                        lastCall.result.chunks[k].index = row.chunkIndex

\* C35: in every state the recorder reports, isPaused implies isRecording:
\* after stop() both are false, also when stop() was called while paused.
C35_PausedImpliesRecording == state.isPaused => state.isRecording

\* C37: when the hook's stop() has returned after its recorder stopped and
\* its wait for pending chunks did not reach its limit, no handleChunk call
\* of the stopped session is still under way, whatever calls of an earlier
\* session ended meanwhile.
C37_NoUploadInFlightAfterStop ==
    (hookStop = "returned" /\ stopCall[1].outcome = "resolved" /\ waited < MaxPolls)
        => \A index \in TaskIndices : chunkTask[index].pc \in {"none", "done"}

\* C34: while handleModeSelect is starting the recording, or the recorder
\* is recording or paused, the session's status on the server is not
\* 'completed'.
C34_CompletedOnlyAfterStop ==
    (isStarting \/ state.isRecording) => sessionRow.status # "completed"

\* The status effect has nothing left to do.
EffectsAtRest ==
    /\ effectDeps = <<state.isRecording, currentSessionId>>
    /\ \A e \in EffectRuns : statusEffect[e].pc \in {"idle", "done"}

\* C36: once a start that failed in the hook's start() is over and the
\* status effect is at rest, the session created for it does not have
\* status 'recording' on the server.
C36_FailedStartNotRecording ==
    (modeSelect = "failed" /\ lastStart.outcome = "rejected" /\ EffectsAtRest)
        => sessionRow.status # "recording"

====
